---- MODULE Spec2Model ----
(***************************************************************************)
(* A model of the sqlfluff formatter extension: the formatting pipeline of *)
(* SQLFluffFormatter (temp-file staging, the direct-binary and the         *)
(* interpreter-module strategies, the lint run), its configuration         *)
(* resolution and its argument construction.                               *)
(*                                                                         *)
(* Texts are sequences of one-character strings; command-line arguments    *)
(* and paths are strings.                                                  *)
(***************************************************************************)
EXTENDS Naturals, Integers, Sequences, FiniteSets, TLC

(***************************************************************************)
(* Bounds of the model.                                                    *)
(***************************************************************************)
\* Date.now() ranges over 0..MaxClock
MaxClock == 1
\* how many characters a tool's stderr may run beyond the truncation limit
MaxOverrun == 2
\* the most milliseconds that pass within one synchronous stretch of code
MaxElapsed == 1
\* the longest text the text functions are applied to
MaxTextLen == 4

(***************************************************************************)
(* Text helpers (JavaScript string primitives).                            *)
(***************************************************************************)
Min(a, b) == IF a < b THEN a ELSE b
Max(a, b) == IF a > b THEN a ELSE b

\* characters of Unicode that count as whitespace
FormFeed == "\f"
VerticalTab == ""
NoBreakSpace == " "

\* the whitespace characters beyond U+00FF, which a string of this language
\* cannot hold or cannot tell apart, each denoted by its code point: the
\* Ogham space mark, the byte order mark, U+2000 to U+200A, the line and the
\* paragraph separator, the narrow no-break space, the medium mathematical
\* space and the ideographic space
OghamSpace == "U+1680"
ByteOrderMark == "U+FEFF"

UnicodeSpaces ==
    {"U+2000", "U+2001", "U+2002", "U+2003", "U+2004", "U+2005", "U+2006",
     "U+2007", "U+2008", "U+2009", "U+200A", "U+2028", "U+2029", "U+202F",
     "U+205F", "U+3000"}

\* \s of a JavaScript regular expression, and the characters trim() strips:
\* space, tab, LF, CR, U+000B, U+000C, U+00A0, U+1680, U+FEFF and the
\* Unicode spaces
WhiteSpace ==
    {" ", "\t", "\n", "\r", FormFeed, VerticalTab, NoBreakSpace, OghamSpace,
     ByteOrderMark} \cup UnicodeSpaces

IsSpace(c) == c \in WhiteSpace

\* String.prototype.substring(from, to), 0-based, end exclusive, clamped
Substring(t, from, to) ==
    LET a == Min(Max(from, 0), Len(t))
        b == Min(Max(to, 0), Len(t))
        lo == Min(a, b)
        hi == Max(a, b)
    IN  SubSeq(t, lo + 1, hi)

RECURSIVE TrimStart(_)
TrimStart(t) ==
    IF t = <<>> THEN <<>>
    ELSE IF IsSpace(Head(t)) THEN TrimStart(Tail(t)) ELSE t

RECURSIVE TrimEnd(_)
TrimEnd(t) ==
    IF t = <<>> THEN <<>>
    ELSE IF IsSpace(t[Len(t)]) THEN TrimEnd(SubSeq(t, 1, Len(t) - 1)) ELSE t

\* String.prototype.trim()
Trim(t) == TrimEnd(TrimStart(t))

\* String.prototype.split('\n'): the sequence of pieces between newlines
RECURSIVE SplitNl(_, _)
SplitNl(t, cur) ==
    IF t = <<>> THEN <<cur>>
    ELSE IF Head(t) = "\n" THEN <<cur>> \o SplitNl(Tail(t), <<>>)
    ELSE SplitNl(Tail(t), Append(cur, Head(t)))

\* Array.prototype.join('\n')
RECURSIVE JoinNl(_)
JoinNl(ls) ==
    IF ls = <<>> THEN <<>>
    ELSE IF Len(ls) = 1 THEN ls[1]
    ELSE ls[1] \o <<"\n">> \o JoinNl(Tail(ls))

(***************************************************************************)
(* preprocessSQL: the regular-expression rewrites of compact SQL.          *)
(***************************************************************************)
LowerCase == <<"a", "b", "c", "d", "e", "f", "g", "h", "i", "j", "k", "l", "m",
               "n", "o", "p", "q", "r", "s", "t", "u", "v", "w", "x", "y", "z">>
UpperCase == <<"A", "B", "C", "D", "E", "F", "G", "H", "I", "J", "K", "L", "M",
               "N", "O", "P", "Q", "R", "S", "T", "U", "V", "W", "X", "Y", "Z">>

\* case folding of the regular expressions' i flag
ToUpper(c) ==
    IF \E k \in 1..Len(LowerCase) : LowerCase[k] = c
    THEN UpperCase[CHOOSE k \in 1..Len(LowerCase) : LowerCase[k] = c]
    ELSE c

\* the first position >= p of t that holds no whitespace (Len(t) + 1 if none):
\* where a greedy \s* starting at p ends
RECURSIVE SkipSpaces(_, _)
SkipSpaces(t, p) ==
    IF p > Len(t) THEN p
    ELSE IF IsSpace(t[p]) THEN SkipSpaces(t, p + 1) ELSE p

\* the literal word w matches t at position p, ignoring case
MatchWord(t, p, w) ==
    /\ p + Len(w) - 1 <= Len(t)
    /\ \A k \in 1..Len(w) : ToUpper(t[p + k - 1]) = ToUpper(w[k])

\* a keyword is a sequence of words joined by \s+ in the pattern; the position
\* after its match at p, or 0 when it does not match there
RECURSIVE MatchKw(_, _, _)
MatchKw(t, p, kw) ==
    IF ~MatchWord(t, p, kw[1]) THEN 0
    ELSE LET e == p + Len(kw[1])
         IN  IF Len(kw) = 1 THEN e
             ELSE IF e <= Len(t) /\ IsSpace(t[e])
                  THEN MatchKw(t, SkipSpaces(t, e), Tail(kw))
                  ELSE 0

\* the alternation (k1|k2|...): the first alternative, in the pattern's order,
\* that matches at p and is followed by \s+ (and then "(" when paren);
\* the position after the keyword, or 0
RECURSIVE MatchAlt(_, _, _, _)
MatchAlt(t, p, kws, paren) ==
    IF kws = <<>> THEN 0
    ELSE LET e == MatchKw(t, p, kws[1])
             f == SkipSpaces(t, e)
             ok == /\ e # 0
                   /\ e <= Len(t)
                   /\ IsSpace(t[e])
                   /\ (paren => (f <= Len(t) /\ t[f] = "("))
         IN  IF ok THEN e ELSE MatchAlt(t, p, Tail(kws), paren)

\* text.replace(/\s+(k1|k2|...)\s+/gi, '\n$1 '), and with paren the pattern
\* /\s+(k1|...)\s+\(/gi replaced by '\n$1 ('
RECURSIVE ReplaceKw(_, _, _, _)
ReplaceKw(t, p, kws, paren) ==
    IF p > Len(t) THEN <<>>
    ELSE LET q == SkipSpaces(t, p)
             e == IF q > p /\ q <= Len(t) THEN MatchAlt(t, q, kws, paren) ELSE 0
             f == SkipSpaces(t, e)
         IN  IF e # 0
             THEN <<"\n">> \o SubSeq(t, q, e - 1) \o <<" ">>
                  \o (IF paren THEN <<"(">> ELSE <<>>)
                  \o ReplaceKw(t, IF paren THEN f + 1 ELSE f, kws, paren)
             ELSE <<t[p]>> \o ReplaceKw(t, p + 1, kws, paren)

\* a comma rewrite that leaves every comma as it is
ReplaceCommaNever(t, p) == SubSeq(t, p, Len(t))

\* text.replace(/,\s+/g, ',\n  ')
RECURSIVE ReplaceComma(_, _)
ReplaceComma(t, p) ==
    IF p > Len(t) THEN <<>>
    ELSE IF t[p] = "," /\ p < Len(t) /\ IsSpace(t[p + 1])
         THEN <<",", "\n", " ", " ">> \o ReplaceComma(t, SkipSpaces(t, p + 1))
         ELSE <<t[p]>> \o ReplaceComma(t, p + 1)

\* the last newline of the whitespace run p+1..r that leaves at least one
\* whitespace character before it, or 0: where /\n\s+\n/ ends when it starts at p
LastNl(t, p, r) ==
    LET js == {j \in (p + 2)..r : t[j] = "\n"}
    IN  IF js = {} THEN 0 ELSE CHOOSE j \in js : \A k \in js : k <= j

\* text.replace(/\n\s+\n/g, '\n')
RECURSIVE CollapseBlank(_, _)
CollapseBlank(t, p) ==
    IF p > Len(t) THEN <<>>
    ELSE LET j == IF t[p] = "\n" THEN LastNl(t, p, SkipSpaces(t, p + 1) - 1) ELSE 0
         IN  IF j # 0
             THEN <<"\n">> \o CollapseBlank(t, j + 1)
             ELSE <<t[p]>> \o CollapseBlank(t, p + 1)

\* lines.map(line => line.trim()).filter(line => line.length > 0)
RECURSIVE TrimAndDrop(_)
TrimAndDrop(ls) ==
    IF ls = <<>> THEN <<>>
    ELSE LET l == Trim(Head(ls))
         IN  (IF l = <<>> THEN <<>> ELSE <<l>>) \o TrimAndDrop(Tail(ls))

\* the clause keywords with WHERE left out
ClauseKeywordsWithoutWhere ==
    << <<"SELECT">>, <<"FROM">>, <<"GROUP", "BY">>, <<"HAVING">>,
       <<"ORDER", "BY">>, <<"LIMIT">>, <<"UNION">>, <<"UNION", "ALL">>,
       <<"EXCEPT">>, <<"INTERSECT">>, <<"WITH">> >>

ClauseKeywords ==
    << <<"SELECT">>, <<"FROM">>, <<"WHERE">>, <<"GROUP", "BY">>, <<"HAVING">>,
       <<"ORDER", "BY">>, <<"LIMIT">>, <<"UNION">>, <<"UNION", "ALL">>,
       <<"EXCEPT">>, <<"INTERSECT">>, <<"WITH">> >>

JoinKeywords ==
    << <<"INNER", "JOIN">>, <<"LEFT", "JOIN">>, <<"RIGHT", "JOIN">>,
       <<"FULL", "JOIN">>, <<"CROSS", "JOIN">>, <<"LEFT", "OUTER", "JOIN">>,
       <<"RIGHT", "OUTER", "JOIN">>, <<"FULL", "OUTER", "JOIN">> >>

OnKeyword == << <<"ON">> >>

\* a keyword word as text: "FROM" is <<"F", "R", "O", "M">>
Letters(w) ==
    CASE w = "SELECT" -> <<"S", "E", "L", "E", "C", "T">>
      [] w = "FROM" -> <<"F", "R", "O", "M">>
      [] w = "WHERE" -> <<"W", "H", "E", "R", "E">>
      [] w = "GROUP" -> <<"G", "R", "O", "U", "P">>
      [] w = "BY" -> <<"B", "Y">>
      [] w = "HAVING" -> <<"H", "A", "V", "I", "N", "G">>
      [] w = "ORDER" -> <<"O", "R", "D", "E", "R">>
      [] w = "LIMIT" -> <<"L", "I", "M", "I", "T">>
      [] w = "UNION" -> <<"U", "N", "I", "O", "N">>
      [] w = "ALL" -> <<"A", "L", "L">>
      [] w = "EXCEPT" -> <<"E", "X", "C", "E", "P", "T">>
      [] w = "INTERSECT" -> <<"I", "N", "T", "E", "R", "S", "E", "C", "T">>
      [] w = "WITH" -> <<"W", "I", "T", "H">>
      [] w = "INNER" -> <<"I", "N", "N", "E", "R">>
      [] w = "JOIN" -> <<"J", "O", "I", "N">>
      [] w = "LEFT" -> <<"L", "E", "F", "T">>
      [] w = "RIGHT" -> <<"R", "I", "G", "H", "T">>
      [] w = "FULL" -> <<"F", "U", "L", "L">>
      [] w = "CROSS" -> <<"C", "R", "O", "S", "S">>
      [] w = "OUTER" -> <<"O", "U", "T", "E", "R">>
      [] w = "ON" -> <<"O", "N">>

\* the keywords of a pattern, each word spelled out as text
Spell(kws) == [a \in 1..Len(kws) |-> [b \in 1..Len(kws[a]) |-> Letters(kws[a][b])]]

\* preprocessSQL rewriting texts of any number of lines
preprocessSQLUnguarded(sql) ==
    LET s1 == ReplaceKw(sql, 1, Spell(ClauseKeywords), FALSE)
        s2 == ReplaceKw(s1, 1, Spell(JoinKeywords), FALSE)
        s3 == ReplaceKw(s2, 1, Spell(OnKeyword), TRUE)
        s4 == ReplaceComma(s3, 1)
        s5 == CollapseBlank(s4, 1)
    IN  JoinNl(TrimAndDrop(SplitNl(s5, <<>>)))

\* SQLFluffFormatter.preprocessSQL
preprocessSQL(sql) ==
    IF Len(SplitNl(sql, <<>>)) > 2 THEN sql
    ELSE LET s1 == ReplaceKw(sql, 1, Spell(ClauseKeywords), FALSE)
             s2 == ReplaceKw(s1, 1, Spell(JoinKeywords), FALSE)
             s3 == ReplaceKw(s2, 1, Spell(OnKeyword), TRUE)
             s4 == ReplaceComma(s3, 1)
             s5 == CollapseBlank(s4, 1)
         IN  JoinNl(TrimAndDrop(SplitNl(s5, <<>>)))

(***************************************************************************)
(* Indentation and line endings (the helpers of the command-based          *)
(* extension).                                                             *)
(***************************************************************************)
\* String.prototype.split(/\r?\n/): the pieces between line breaks, a line
\* break being "\r\n" or "\n"
RECURSIVE SplitLines(_, _)
SplitLines(t, cur) ==
    IF t = <<>> THEN <<cur>>
    ELSE IF Head(t) = "\n" THEN <<cur>> \o SplitLines(Tail(t), <<>>)
    ELSE IF Head(t) = "\r" /\ Len(t) >= 2 /\ t[2] = "\n"
         THEN <<cur>> \o SplitLines(Tail(Tail(t)), <<>>)
    ELSE SplitLines(Tail(t), Append(cur, Head(t)))

\* the leading run of spaces and tabs of a line
LeadingSpaceOrTab(line) ==
    LET others == {k \in 1..Len(line) : line[k] \notin {" ", "\t"}}
    IN  IF others = {} THEN line
        ELSE SubSeq(line, 1, (CHOOSE k \in others : \A j \in others : k <= j) - 1)

\* line.match(/^(\s*)/)[1]: the leading whitespace of a line
LeadingSpace(line) == SubSeq(line, 1, SkipSpaces(line, 1) - 1)

\* getIndentation(text)
getIndentation(text) == LeadingSpace(SplitLines(text, <<>>)[1])

\* String.prototype.startsWith
StartsWith(t, prefix) ==
    Len(prefix) <= Len(t) /\ SubSeq(t, 1, Len(prefix)) = prefix

\* removeFirstLineIndent leaving the first line as it is
removeFirstLineIndentKept(text, indent) ==
    IF indent = <<>> THEN text ELSE JoinNl(SplitLines(text, <<>>))

\* removeFirstLineIndent(text, indent)
removeFirstLineIndent(text, indent) ==
    IF indent = <<>> THEN text
    ELSE LET lines == SplitLines(text, <<>>)
             first == IF StartsWith(lines[1], indent)
                      THEN Substring(lines[1], Len(indent), Len(lines[1]))
                      ELSE lines[1]
         IN  JoinNl(<<first>> \o Tail(lines))

\* applyIndent that re-indents: the indentation a line already has is dropped
applyIndentTrimmed(text, firstIndent, otherIndent) ==
    LET lines == SplitLines(text, <<>>)
    IN  JoinNl([i \in 1..Len(lines) |->
                  IF Len(Trim(lines[i])) = 0 THEN lines[i]
                  ELSE (IF i = 1 THEN firstIndent ELSE otherIndent)
                       \o TrimStart(lines[i])])

\* applyIndent(text, firstIndent, otherIndent)
applyIndent(text, firstIndent, otherIndent) ==
    LET lines == SplitLines(text, <<>>)
    IN  JoinNl([i \in 1..Len(lines) |->
                  IF Len(Trim(lines[i])) = 0 THEN lines[i]
                  ELSE (IF i = 1 THEN firstIndent ELSE otherIndent) \o lines[i]])

\* text.replace(/\r\n/g, '\n')
RECURSIVE CrLfToLf(_)
CrLfToLf(t) ==
    IF t = <<>> THEN <<>>
    ELSE IF Head(t) = "\r" /\ Len(t) >= 2 /\ t[2] = "\n"
         THEN <<"\n">> \o CrLfToLf(Tail(Tail(t)))
         ELSE <<Head(t)>> \o CrLfToLf(Tail(t))

\* text.replace(/\r/g, '\n')
RECURSIVE CrToLf(_)
CrToLf(t) ==
    IF t = <<>> THEN <<>>
    ELSE <<IF Head(t) = "\r" THEN "\n" ELSE Head(t)>> \o CrToLf(Tail(t))

\* text.replace(/\n/g, '\r\n')
RECURSIVE LfToCrLf(_)
LfToCrLf(t) ==
    IF t = <<>> THEN <<>>
    ELSE (IF Head(t) = "\n" THEN <<"\r", "\n">> ELSE <<Head(t)>>)
         \o LfToCrLf(Tail(t))

\* the two end-of-line styles of a document
Lf == <<"\n">>
CrLf == <<"\r", "\n">>

\* normalizeEol that does not collapse the line endings first
normalizeEolExpandOnly(text, targetEol) ==
    IF targetEol = CrLf THEN LfToCrLf(text) ELSE text

\* normalizeEol(text, targetEol)
normalizeEol(text, targetEol) ==
    LET normalized == CrToLf(CrLfToLf(text))
    IN  IF targetEol = CrLf THEN LfToCrLf(normalized) ELSE normalized

(***************************************************************************)
(* Configuration resolution and argument construction.                     *)
(***************************************************************************)
\* JavaScript null, for a path
Null == "null"

\* JavaScript undefined, for a workspace folder
Undefined == "undefined"

\* the folders a workspace may hold, the first one first
FirstFolder == "/ws"
SecondFolder == "/ws2"

\* vscode.workspace.workspaceFolders: undefined, or an array of folders
NoWorkspace == [defined |-> FALSE, folders |-> <<>>]
Workspace(folders) == [defined |-> TRUE, folders |-> folders]

\* `workspaceFolders && workspaceFolders.length > 0`
HasFolders(wf) == wf.defined /\ wf.folders # <<>>

\* path.join(folder.uri.fsPath, '.sqlfluff')
ConfigIn(folder) == folder \o "/.sqlfluff"

\* path.join(workspaceFolders[0].uri.fsPath, '.sqlfluff')
WorkspaceConfig == ConfigIn(FirstFolder)
\* the .sqlfluff of the second folder
SecondConfig == ConfigIn(SecondFolder)
\* path.join(os.homedir(), '.sqlfluff')
HomeConfig == "/home/.sqlfluff"
\* path.join(this.extensionPath, '.sqlfluff.default')
DefaultConfig == "/ext/.sqlfluff.default"

ConfigCandidates == {WorkspaceConfig, SecondConfig, HomeConfig, DefaultConfig}

\* resolveConfigPath with the home directory probed before the workspace
resolveConfigPathHomeFirst(hasWs, present) ==
    IF HomeConfig \in present THEN HomeConfig
    ELSE IF hasWs /\ WorkspaceConfig \in present THEN WorkspaceConfig
    ELSE IF DefaultConfig \in present THEN DefaultConfig
    ELSE Null

\* SQLFluffFormatter.resolveConfigPath: hasWs is "workspaceFolders is set and
\* not empty", present the set of paths for which fs.existsSync is true
resolveConfigPath(hasWs, present) ==
    IF hasWs /\ WorkspaceConfig \in present THEN WorkspaceConfig
    ELSE IF HomeConfig \in present THEN HomeConfig
    ELSE IF DefaultConfig \in present THEN DefaultConfig
    ELSE Null

\* what findSqlfluffConfig throws when it reads `folder.uri` of undefined
TypeError == "Cannot read properties of undefined (reading 'uri')"

\* findSqlfluffConfig of the command-based extension: wf is
\* vscode.workspace.workspaceFolders, docFolder what getWorkspaceFolder gives
\* for the document (Undefined: the document lies in no folder), present the
\* set of paths for which fs.existsSync is true. An empty array passes the
\* guard `!workspaceFolders`, and workspaceFolders[0] is then undefined.
findSqlfluffConfig(wf, docFolder, present) ==
    IF ~wf.defined THEN Null
    ELSE LET folder == IF docFolder # Undefined THEN docFolder
                       ELSE IF wf.folders # <<>> THEN wf.folders[1]
                       ELSE Undefined
         IN  IF folder = Undefined THEN TypeError
             ELSE IF ConfigIn(folder) \in present THEN ConfigIn(folder)
             ELSE IF HomeConfig \in present THEN HomeConfig
             ELSE Null

\* excludeRules.join(',')
RECURSIVE JoinComma(_)
JoinComma(rules) ==
    IF rules = <<>> THEN ""
    ELSE IF Len(rules) = 1 THEN rules[1]
    ELSE rules[1] \o "," \o JoinComma(Tail(rules))

\* SQLFluffFormatter.buildCliArgs
buildCliArgs(rules, hasWs, present) ==
    LET configPath == resolveConfigPath(hasWs, present)
    IN  (IF Len(rules) > 0 THEN <<"--exclude-rules", JoinComma(rules)>> ELSE <<>>)
        \o (IF configPath # Null THEN <<"--config", configPath>> ELSE <<>>)
        \o <<"--nocolor">>

\* SQLFluffFormatter.buildFixArgs
buildFixArgs(rules, hasWs, present) ==
    Append(buildCliArgs(rules, hasWs, present), "--force")

\* buildLintArgs that passes --force on to lint
buildLintArgsForced(rules, hasWs, present) ==
    Append(buildCliArgs(rules, hasWs, present), "--force")

\* SQLFluffFormatter.buildLintArgs
buildLintArgs(rules, hasWs, present) ==
    buildCliArgs(rules, hasWs, present)

\* args.some((arg, index) => arg === '--dialect' || arg === '-d' ||
\*   (index > 0 && (args[index - 1] === '--dialect' || args[index - 1] === '-d')))
hasDialect(args) ==
    \E index \in 1..Len(args) :
        \/ args[index] = "--dialect"
        \/ args[index] = "-d"
        \/ index > 1 /\ (args[index - 1] = "--dialect" \/ args[index - 1] = "-d")

\* ensureDialect(args, configPath) of the command-based extension
ensureDialect(args, configPath) ==
    IF configPath # Null THEN args
    ELSE IF hasDialect(args) THEN args
    ELSE args \o <<"--dialect", "ansi">>

(***************************************************************************)
(* The state of the program and of its environment.                        *)
(***************************************************************************)
VARIABLES
    workspaceFolders, \* vscode.workspace.workspaceFolders
    documentFolder, \* vscode.workspace.getWorkspaceFolder(document.uri)
    existing,       \* the configuration candidates that exist on disk
    excludeRules,   \* the sqlfluff.excludeRules setting
    unlinkFails,    \* fs.unlinkSync throws on the files of os.tmpdir()
    probe,          \* results of direct calls of the configuration functions
    now,            \* Date.now()
    fs,             \* os.tmpdir(): file name -> [content, creator, writes]
    outcome,        \* per invocation: the promise of formatSQL
    sqlOf,          \* per invocation: `sql` as passed down the strategies
    chan,           \* per invocation: an output channel was supplied
    tmp,            \* per invocation and strategy: tmpFile
    proc,           \* per invocation and strategy: the spawned process (argv:
                    \* the command line up to tmpFile, its last argument)
    lint,           \* per invocation: the lint process and its tmpFile
    hist,           \* per invocation: what happened, in order
    txt,            \* a text and the text functions applied to it
    cmd             \* the format command being handled

envVars == <<workspaceFolders, documentFolder, existing, excludeRules, unlinkFails>>
runVars == <<now, fs, outcome, sqlOf, chan, tmp, proc, lint, hist>>
vars == <<workspaceFolders, documentFolder, existing, excludeRules, unlinkFails, probe,
          now, fs, outcome, sqlOf, chan, tmp, proc, lint, hist, txt, cmd>>

\* vscode.workspace.workspaceFolders is set and not empty
workspaceOpen == HasFolders(workspaceFolders)

\* formatting invocations (calls of formatSQL)
Invocations == {"f1", "f2"}
\* the invocations that run under Spec: one run at a time
Formatting == {"f1"}

Strategies == {"direct", "module"}

\* this.sqlfluffPath and this.pythonPath (loadConfig defaults)
SqlfluffPath == "sqlfluff"
PythonPath == "python"

\* `sqlfluff_${Date.now()}.sql` and `sqlfluff_lint_${Date.now()}.sql`
FixName(t) == [kind |-> "fix", t |-> t]
LintName(t) == [kind |-> "lint", t |-> t]
NoFile == [kind |-> "none", t |-> 0]

\* fs.writeFileSync(name, content): creates the file or overwrites it
WriteFile(f, name, content, who) ==
    [m \in DOMAIN f \cup {name} |->
        IF m = name
        THEN [content |-> content,
              creator |-> IF name \in DOMAIN f THEN f[name].creator ELSE who,
              writes |-> IF name \in DOMAIN f THEN f[name].writes + 1 ELSE 1]
        ELSE f[m]]

\* the file system without the file name
RemoveFile(f, name) == [m \in DOMAIN f \ {name} |-> f[m]]

\* try { fs.unlinkSync(name); } catch (e) {}: the file stays when unlinkSync
\* throws, and nothing else happens
Unlink(f, name) == IF unlinkFails THEN f ELSE RemoveFile(f, name)

\* fs.readFileSync(name, 'utf-8'), ok = FALSE when it throws, err the code
\* of the error: ENOENT when the file is gone
ReadFile(f, name) ==
    IF name \in DOMAIN f THEN [ok |-> TRUE, content |-> f[name].content, err |-> ""]
    ELSE [ok |-> FALSE, content |-> <<>>, err |-> "ENOENT"]

\* a read that throws although the file is there: the path cannot be read
\* (EACCES), is a directory (EISDIR), or no descriptor is left (EMFILE)
Unreadable == [ok |-> FALSE, content |-> <<>>, err |-> "EACCES"]

\* `formatted && formatted.trim()` as a condition
HasOutput(content) == content # <<>> /\ Trim(content) # <<>>

\* errors an invocation is rejected with
NoError == [type |-> "none", code |-> 0, detail |-> <<>>]
IoError(what) == [type |-> what, code |-> 0, detail |-> <<>>]

\* the number of characters of stderr quoted in the error message
StderrLimit == 500

\* the terminal error quoting the whole of stderr
TerminalErrorWhole(code, stderr) ==
    IF stderr # <<>>
    THEN [type |-> "sqlfluff error", code |-> 0, detail |-> stderr]
    ELSE [type |-> "sqlfluff formatting failed with code", code |-> code,
          detail |-> <<>>]

\* new Error(`sqlfluff error: ${stderr.substring(0, 500)}`) when stderr is not
\* empty, new Error(`sqlfluff formatting failed with code ${code}`) otherwise
TerminalError(code, stderr) ==
    IF stderr # <<>>
    THEN [type |-> "sqlfluff error", code |-> 0,
          detail |-> Substring(stderr, 0, StderrLimit)]
    ELSE [type |-> "sqlfluff formatting failed with code", code |-> code,
          detail |-> <<>>]

Pending == [kind |-> "pending", text |-> <<>>, err |-> NoError]
Resolved(text) == [kind |-> "resolved", text |-> text, err |-> NoError]
Rejected(err) == [kind |-> "rejected", text |-> <<>>, err |-> err]

\* resolve(...) and reject(...) of a promise: only the first call settles it
Settle(o, new) == IF o.kind = "pending" THEN new ELSE o

NoProc == [live |-> FALSE, isProcessing |-> FALSE, errorFired |-> FALSE,
           closeFired |-> FALSE, wrote |-> FALSE, argv |-> <<>>]
NoLint == [live |-> FALSE, errorFired |-> FALSE, closeFired |-> FALSE,
           tmp |-> NoFile, argv |-> <<>>]

\* an entry of hist
Event(ev, s, code, rd, stderr) ==
    [ev |-> ev, s |-> s, code |-> code, readable |-> rd.ok,
     content |-> rd.content, stderr |-> stderr]
NoRead == [ok |-> FALSE, content |-> <<>>]
Ev(ev, s) == Event(ev, s, 0, NoRead, <<>>)

(***************************************************************************)
(* Inputs.                                                                 *)
(***************************************************************************)
\* texts handed to formatSQL: a compact statement, and a blank three-line text
SqlInputs == { <<"a", ",", " ", "b">>, <<"\n", " ", "\n">> }

\* what the tool may leave in the file it fixes: nothing, blank text, SQL
ToolOutputs == { <<>>, <<" ", "\n">>, <<"a", "\n">> }

\* exit codes of the tool
ExitCodes == {0, 1, 2}

\* the milliseconds that may pass between two reads of Date.now() in one
\* synchronous stretch of code
Elapsed == 0..MaxElapsed

Digits == <<"0", "1", "2", "3", "4", "5", "6", "7", "8", "9">>

\* a stderr of n characters, each telling its position
StderrText(n) == [k \in 1..n |-> Digits[(k % 10) + 1]]

StderrChoices ==
    { StderrText(n) : n \in {0, StderrLimit, StderrLimit + MaxOverrun} }

\* the settings the formatting runs are checked under
RunSettings ==
    { [ws |-> Workspace(<<FirstFolder>>), doc |-> FirstFolder,
       present |-> {WorkspaceConfig, HomeConfig}, rules |-> <<>>],
      [ws |-> NoWorkspace, doc |-> Undefined,
       present |-> {}, rules |-> <<"L009", "L027">>] }

\* the workspaces the configuration functions are called in: none, an empty
\* one, one folder or two, and the document in one of the folders or in none
Workspaces ==
    { [ws |-> NoWorkspace, doc |-> Undefined],
      [ws |-> Workspace(<<>>), doc |-> Undefined] }
    \cup { [ws |-> Workspace(<<FirstFolder>>), doc |-> d] :
              d \in {Undefined, FirstFolder} }
    \cup { [ws |-> Workspace(<<FirstFolder, SecondFolder>>), doc |-> d] :
              d \in {Undefined, FirstFolder, SecondFolder} }

\* the settings the commands are checked under: those of the formatting
\* runs, a window whose workspaceFolders is an empty array, and a workspace
\* of two folders with the document in the second one
CommandSettings ==
    RunSettings \cup
    { [ws |-> Workspace(<<>>), doc |-> Undefined,
       present |-> {HomeConfig}, rules |-> <<>>],
      [ws |-> Workspace(<<FirstFolder, SecondFolder>>), doc |-> SecondFolder,
       present |-> {SecondConfig, HomeConfig}, rules |-> <<>>] }

\* values of the sqlfluff.excludeRules setting
RuleLists == { <<>>, <<"L009">>, <<"L009", "L027">> }

\* values of the sqlfluff.args setting (config.get<string[]>('args', []))
UserArgLists ==
    { <<>>, <<"--verbose">>, <<"--dialect", "mysql">>, <<"-d", "mysql">>,
      <<"--verbose", "-d", "tsql">>, <<"--dialect=mysql">>, <<"--dialect">> }

(***************************************************************************)
(* The strategies.                                                         *)
(***************************************************************************)
\* a child process just spawned, no event delivered yet: its 'error' or
\* 'close' may be handled at once, in the millisecond of the spawn
Spawned(argv) ==
    [live |-> TRUE, isProcessing |-> TRUE, errorFired |-> FALSE,
     closeFired |-> FALSE, wrote |-> FALSE, argv |-> argv]

\* executePythonModuleFormat up to the registration of the handlers, on the
\* file system f, with t what its Date.now() gives: writeOk = FALSE when
\* fs.writeFileSync throws, spawnThrows when building the arguments or spawn
\* throws. Gives the file system left, the process, tmpFile, the call of
\* reject (Pending: none) and the events.
ModuleEnter(i, sql, f, writeOk, spawnThrows, t) ==
    LET name == FixName(t)
        f1 == WriteFile(f, name, sql, i)
    IN  IF ~writeOk
        THEN [fs |-> f, proc |-> NoProc, tmp |-> NoFile,
              out |-> Rejected(IoError("write failed")),
              evs |-> <<Ev("enter", "module"), Ev("syncThrow", "module"),
                        Ev("reject", "module")>>]
        ELSE IF spawnThrows
        THEN [fs |-> f1, proc |-> NoProc, tmp |-> name,
              out |-> Rejected(IoError("spawn failed")),
              evs |-> <<Ev("enter", "module"), Ev("syncThrow", "module"),
                        Ev("reject", "module")>>]
        ELSE [fs |-> f1,
              proc |-> Spawned(<<PythonPath, "-m", "sqlfluff", "fix">>
                               \o buildFixArgs(excludeRules, workspaceOpen, existing)),
              tmp |-> name, out |-> Pending,
              evs |-> <<Ev("enter", "module")>>]

\* runLint(cmd, args, sql, outputChannel) on the file system f: everything it
\* does is inside its own try/catch. Gives the file system and the lint process.
RunLint(i, cmdArgs, f, writeOk, spawnThrows) ==
    LET name == LintName(now)
    IN  IF ~writeOk THEN [fs |-> f, lint |-> lint[i]]
        ELSE IF spawnThrows
        THEN [fs |-> WriteFile(f, name, sqlOf[i], i), lint |-> lint[i]]
        ELSE [fs |-> WriteFile(f, name, sqlOf[i], i),
              lint |-> [live |-> TRUE, errorFired |-> FALSE, closeFired |-> FALSE,
                        tmp |-> name, argv |-> cmdArgs]]

\* handlers that act on every event of their process
IsProcessingAlways(p) == TRUE

\* handlers that act on no event of their process
IsProcessingNever(p) == FALSE

\* `if (isProcessing)` / `if (!isProcessing) return`: the handler acts
IsProcessing(p) == p.isProcessing

\* a direct strategy that gives up instead of escalating
EscalateRejects(i, sql, f, name, writeOk, spawnThrows, t) ==
    [fs |-> Unlink(f, name), proc |-> NoProc, tmp |-> NoFile,
     out |-> Rejected(IoError("Failed to execute sqlfluff")),
     evs |-> <<Ev("reject", "direct")>>]

\* try { fs.unlinkSync(tmpFile); } catch (e) {} followed by
\* this.executePythonModuleFormat(sql, resolve, reject, outputChannel)
Escalate(i, sql, f, name, writeOk, spawnThrows, t) ==
    ModuleEnter(i, sql, Unlink(f, name), writeOk, spawnThrows, t)

\* a close handler that takes only exit code 0 for a success
DirectCloseResolvesOnZero(code, rd) == code = 0 /\ rd.ok /\ HasOutput(rd.content)

\* the close handler of executeSqlfluffFormat resolves with what it read
DirectCloseResolves(code, rd) == rd.ok /\ HasOutput(rd.content)

\* the close handler of executePythonModuleFormat: "resolve", "throw" (the
\* read of the exit-code-0 branch throws) or "reject"
ModuleCloseDecision(code, rd) ==
    IF code = 0
    THEN IF rd.ok THEN "resolve" ELSE "throw"
    ELSE IF rd.ok /\ HasOutput(rd.content) THEN "resolve" ELSE "reject"

(***************************************************************************)
(* Actions.                                                                *)
(***************************************************************************)
Idle(i) == hist[i] = <<>>

\* formatSQL(sql, outputChannel), with the synchronous part of
\* executeSqlfluffFormat and, when that throws, of executePythonModuleFormat,
\* which reads Date.now() again: elapsed is the time that has passed between
\* the two reads
StartFormatSQL(i, sql, ch, writeOk, spawnThrows, modWriteOk, modSpawnThrows, elapsed) ==
    /\ Idle(i)
    /\ now + elapsed <= MaxClock
    /\ elapsed > 0 => (writeOk /\ spawnThrows)
    /\ now' = now + elapsed
    /\ LET pre == preprocessSQL(sql)
           name == FixName(now)
           f1 == WriteFile(fs, name, pre, i)
           m == Escalate(i, pre, f1, name, modWriteOk, modSpawnThrows, now + elapsed)
       IN  /\ sqlOf' = [sqlOf EXCEPT ![i] = pre]
           /\ chan' = [chan EXCEPT ![i] = ch]
           /\ IF ~writeOk
              THEN /\ outcome' = [outcome EXCEPT ![i] = Rejected(IoError("write failed"))]
                   /\ hist' = [hist EXCEPT ![i] =
                                  <<Ev("formatSQL", "none"), Ev("reject", "none")>>]
                   /\ UNCHANGED <<fs, tmp, proc>>
              ELSE IF spawnThrows
              THEN /\ fs' = m.fs
                   /\ tmp' = [tmp EXCEPT ![i] = [direct |-> name, module |-> m.tmp]]
                   /\ proc' = [proc EXCEPT ![i].module = m.proc]
                   /\ outcome' = [outcome EXCEPT ![i] = Settle(@, m.out)]
                   /\ hist' = [hist EXCEPT ![i] =
                                  <<Ev("formatSQL", "none"), Ev("enter", "direct"),
                                    Ev("syncThrow", "direct")>> \o m.evs]
              ELSE /\ fs' = f1
                   /\ tmp' = [tmp EXCEPT ![i].direct = name]
                   /\ proc' = [proc EXCEPT ![i].direct =
                                  Spawned(<<SqlfluffPath, "fix">>
                                          \o buildFixArgs(excludeRules, workspaceOpen,
                                                          existing))]
                   /\ UNCHANGED outcome
                   /\ hist' = [hist EXCEPT ![i] =
                                  <<Ev("formatSQL", "none"), Ev("enter", "direct")>>]
    /\ UNCHANGED <<txt, envVars, probe, lint>>

\* formatSQL called on its own
FormatSQL(i, sql, ch, writeOk, spawnThrows, modWriteOk, modSpawnThrows, elapsed) ==
    /\ StartFormatSQL(i, sql, ch, writeOk, spawnThrows, modWriteOk, modSpawnThrows, elapsed)
    /\ UNCHANGED cmd

\* the tool rewrites the file it was given in place (remove: the file is gone
\* when the handler reads it)
ToolWrite(i, s, remove, content) ==
    /\ proc[i][s].live
    /\ ~proc[i][s].errorFired /\ ~proc[i][s].closeFired /\ ~proc[i][s].wrote
    /\ tmp[i][s] \in DOMAIN fs
    /\ fs' = IF remove THEN RemoveFile(fs, tmp[i][s])
             ELSE WriteFile(fs, tmp[i][s], content, i)
    /\ proc' = [proc EXCEPT ![i][s].wrote = TRUE]
    /\ UNCHANGED <<txt, cmd, envVars, probe, now, outcome,
                   sqlOf, chan, tmp, lint, hist>>

\* process.on('error', ...) of executeSqlfluffFormat
DirectError(i, modWriteOk, modSpawnThrows) ==
    /\ proc[i].direct.live /\ ~proc[i].direct.errorFired
    /\ IF IsProcessing(proc[i].direct)
       THEN LET m == Escalate(i, sqlOf[i], fs, tmp[i].direct,
                              modWriteOk, modSpawnThrows, now)
            IN  /\ fs' = m.fs
                /\ tmp' = [tmp EXCEPT ![i].module = m.tmp]
                /\ proc' = [proc EXCEPT ![i].direct.errorFired = TRUE,
                                        ![i].direct.isProcessing = FALSE,
                                        ![i].module = m.proc]
                /\ outcome' = [outcome EXCEPT ![i] = Settle(@, m.out)]
                /\ hist' = [hist EXCEPT ![i] = @ \o <<Ev("error", "direct")>> \o m.evs]
       ELSE /\ proc' = [proc EXCEPT ![i].direct.errorFired = TRUE]
            /\ UNCHANGED <<fs, tmp, outcome, hist>>
    /\ UNCHANGED <<txt, cmd, envVars, probe, now, sqlOf, chan, lint>>

\* process.on('close', ...) of executeSqlfluffFormat. The read of tmpFile is
\* caught where it is made (an unreadable file reads as ''). The arguments of
\* runLint are built in the handler's try block, before runLint is entered:
\* lintArgsThrow when this.buildLintArgs throws (the settings are read anew on
\* every call and may have changed since the process was spawned).
DirectClose(i, code, modWriteOk, modSpawnThrows, lintWriteOk, lintSpawnThrows, lintArgsThrow) ==
    /\ proc[i].direct.live /\ ~proc[i].direct.closeFired
    /\ IF ~IsProcessing(proc[i].direct)
       THEN /\ proc' = [proc EXCEPT ![i].direct.closeFired = TRUE]
            /\ UNCHANGED <<fs, tmp, outcome, lint, hist>>
       ELSE LET rd == ReadFile(fs, tmp[i].direct)
                ev == Event("close", "direct", code, rd, <<>>)
            IN  IF DirectCloseResolves(code, rd) /\ chan[i] /\ lintArgsThrow
                THEN /\ fs' = Unlink(fs, tmp[i].direct)
                     /\ proc' = [proc EXCEPT ![i].direct.closeFired = TRUE,
                                             ![i].direct.isProcessing = FALSE]
                     /\ outcome' = [outcome EXCEPT ![i] =
                                       Settle(@, Rejected(IoError("lint arguments failed")))]
                     /\ hist' = [hist EXCEPT ![i] =
                                    @ \o <<ev, Ev("handlerThrow", "direct"),
                                           Ev("reject", "direct")>>]
                     /\ UNCHANGED <<tmp, lint>>
                ELSE IF DirectCloseResolves(code, rd)
                THEN LET l == IF chan[i]
                              THEN RunLint(i, <<SqlfluffPath, "lint">>
                                              \o buildLintArgs(excludeRules,
                                                               workspaceOpen, existing),
                                           fs, lintWriteOk, lintSpawnThrows)
                              ELSE [fs |-> fs, lint |-> lint[i]]
                     IN  /\ fs' = Unlink(l.fs, tmp[i].direct)
                         /\ lint' = [lint EXCEPT ![i] = l.lint]
                         /\ proc' = [proc EXCEPT ![i].direct.closeFired = TRUE,
                                                 ![i].direct.isProcessing = FALSE]
                         /\ outcome' = [outcome EXCEPT ![i] = Settle(@, Resolved(rd.content))]
                         /\ hist' = [hist EXCEPT ![i] =
                                        @ \o <<ev>>
                                          \o (IF chan[i] THEN <<Ev("lint", "direct")>> ELSE <<>>)
                                          \o <<Ev("resolve", "direct")>>]
                         /\ UNCHANGED tmp
                ELSE LET m == Escalate(i, sqlOf[i], fs, tmp[i].direct,
                                       modWriteOk, modSpawnThrows, now)
                     IN  /\ fs' = m.fs
                         /\ tmp' = [tmp EXCEPT ![i].module = m.tmp]
                         /\ proc' = [proc EXCEPT ![i].direct.closeFired = TRUE,
                                                 ![i].direct.isProcessing = FALSE,
                                                 ![i].module = m.proc]
                         /\ outcome' = [outcome EXCEPT ![i] = Settle(@, m.out)]
                         /\ hist' = [hist EXCEPT ![i] = @ \o <<ev>> \o m.evs]
                         /\ UNCHANGED lint
    /\ UNCHANGED <<txt, cmd, envVars, probe, now, sqlOf, chan>>

\* process.on('error', ...) of executePythonModuleFormat
ModuleError(i) ==
    /\ proc[i].module.live /\ ~proc[i].module.errorFired
    /\ IF IsProcessing(proc[i].module)
       THEN /\ fs' = Unlink(fs, tmp[i].module)
            /\ proc' = [proc EXCEPT ![i].module.errorFired = TRUE,
                                    ![i].module.isProcessing = FALSE]
            /\ outcome' = [outcome EXCEPT ![i] =
                              Settle(@, Rejected(IoError("Failed to execute sqlfluff")))]
            /\ hist' = [hist EXCEPT ![i] =
                           @ \o <<Ev("error", "module"), Ev("reject", "module")>>]
       ELSE /\ proc' = [proc EXCEPT ![i].module.errorFired = TRUE]
            /\ UNCHANGED <<fs, outcome, hist>>
    /\ UNCHANGED <<txt, cmd, envVars, probe, now, sqlOf, chan,
                   tmp, lint>>

\* process.on('close', ...) of executePythonModuleFormat; lintArgsThrow as in
\* DirectClose
ModuleClose(i, code, stderr, lintWriteOk, lintSpawnThrows, lintArgsThrow) ==
    /\ proc[i].module.live /\ ~proc[i].module.closeFired
    /\ IF ~IsProcessing(proc[i].module)
       THEN /\ proc' = [proc EXCEPT ![i].module.closeFired = TRUE]
            /\ UNCHANGED <<fs, outcome, lint, hist>>
       ELSE LET rd == ReadFile(fs, tmp[i].module)
                ev == Event("close", "module", code, rd,
                            IF code = 0 THEN <<>> ELSE stderr)
                decided == ModuleCloseDecision(code, rd)
                lintCalled == code = 0 /\ decided = "resolve" /\ chan[i]
                what == IF lintCalled /\ lintArgsThrow THEN "lintThrow" ELSE decided
                l == IF lintCalled /\ ~lintArgsThrow
                     THEN RunLint(i, <<PythonPath, "-m", "sqlfluff", "lint">>
                                     \o buildLintArgs(excludeRules, workspaceOpen,
                                                      existing),
                                  fs, lintWriteOk, lintSpawnThrows)
                     ELSE [fs |-> fs, lint |-> lint[i]]
            IN  /\ fs' = Unlink(l.fs, tmp[i].module)
                /\ lint' = [lint EXCEPT ![i] = l.lint]
                /\ proc' = [proc EXCEPT ![i].module.closeFired = TRUE,
                                        ![i].module.isProcessing = FALSE]
                /\ outcome' = [outcome EXCEPT ![i] =
                      Settle(@, CASE what = "resolve" -> Resolved(rd.content)
                                  [] what = "throw" -> Rejected(IoError("read failed"))
                                  [] what = "lintThrow" ->
                                        Rejected(IoError("lint arguments failed"))
                                  [] what = "reject" -> Rejected(TerminalError(code, stderr)))]
                /\ hist' = [hist EXCEPT ![i] =
                      @ \o <<ev>>
                        \o (IF lintCalled /\ ~lintArgsThrow
                            THEN <<Ev("lint", "module")>> ELSE <<>>)
                        \o (IF what \in {"throw", "lintThrow"}
                            THEN <<Ev("handlerThrow", "module")>> ELSE <<>>)
                        \o <<Ev(IF what = "resolve" THEN "resolve" ELSE "reject", "module")>>]
    /\ UNCHANGED <<txt, cmd, envVars, probe, now, sqlOf, chan, tmp>>

\* process.on('close', ...) of runLint
LintClose(i) ==
    /\ lint[i].live /\ ~lint[i].closeFired
    /\ fs' = Unlink(fs, lint[i].tmp)
    /\ lint' = [lint EXCEPT ![i].closeFired = TRUE]
    /\ UNCHANGED <<txt, cmd, envVars, probe, now, outcome,
                   sqlOf, chan, tmp, proc, hist>>

\* process.on('error', ...) of runLint
LintError(i) ==
    /\ lint[i].live /\ ~lint[i].errorFired
    /\ fs' = Unlink(fs, lint[i].tmp)
    /\ lint' = [lint EXCEPT ![i].errorFired = TRUE]
    /\ UNCHANGED <<txt, cmd, envVars, probe, now, outcome,
                   sqlOf, chan, tmp, proc, hist>>

\* a millisecond passes
Tick ==
    /\ now < MaxClock
    /\ now' = now + 1
    /\ UNCHANGED <<txt, cmd, envVars, probe, fs, outcome,
                   sqlOf, chan, tmp, proc, lint, hist>>

(***************************************************************************)
(* The format commands and the formatting providers: `sqlfluff.format` of  *)
(* the command-based extension (formatSqlWithSqlfluff), and the command    *)
(* `sqlfluff-formatter.formatSQL` and the providers of extension.ts, which *)
(* hand the text to SQLFluffFormatter.                                     *)
(***************************************************************************)
\* `sqlfluff_${Date.now()}_${Math.random().toString(36).substring(7)}.sql`
TempName(t, r) == [kind |-> "cmd", t |-> t, r |-> r]

\* values of Math.random().toString(36).substring(7)
Randoms == {"k3f", "x9q"}

\* what the command works on: the text of the range to format, the text of
\* the line the range starts in, and the document's end-of-line style
Document(isSelection, lineText, text, eol) ==
    [isSelection |-> isSelection, lineText |-> lineText, text |-> text, eol |-> eol]

NoDocument == Document(FALSE, <<>>, <<>>, Lf)

\* the selection "  SELECT 1" in the line "    SELECT 1"
IndentedSelection(eol) ==
    Document(TRUE,
             <<" ", " ", " ", " ">> \o Letters("SELECT") \o <<" ", "1">>,
             <<" ", " ">> \o Letters("SELECT") \o <<" ", "1">>, eol)

\* the whole of the one-line document "a, b"
WholeDocument(eol) ==
    Document(FALSE, <<"a", ",", " ", "b">>, <<"a", ",", " ", "b">>, eol)

\* the documents handed to the new command and to the providers
WholeDocuments == { WholeDocument(eol) : eol \in {Lf, CrLf} }

Documents ==
    { IndentedSelection(eol) : eol \in {Lf, CrLf} }
        \cup { WholeDocument(eol) : eol \in {Lf, CrLf} }

\* "select\n  1"
SelectFormatted == <<"s", "e", "l", "e", "c", "t", "\n", " ", " ", "1">>

\* what the tool run by the command may leave in the file
CommandToolOutputs == { SelectFormatted, <<"a", "\n">> }

\* error.code of a failed execAsync (0: it did not fail)
CommandExitCodes == {0, 1, 2, 127}

\* the range resolved when the handler starts: the selection, or the whole
\* document, with the number of characters it spans
RangeOf(doc) == [isSelection |-> doc.isSelection, chars |-> Len(doc.text)]

\* an edit that replaces an empty range at the start of the document
InsertAtStart(range, text) == [range |-> [isSelection |-> FALSE, chars |-> 0], text |-> text]

\* editBuilder.replace(range, text), edit.replace(document.uri, range, text)
\* and vscode.TextEdit.replace(range, text)
Replace(range, text) == [range |-> range, text |-> text]

\* vscode.window.show{Error,Warning,Information}Message
Message(level, text) == [level |-> level, text |-> text]

\* runSqlfluff has not settled
NoRun == [exitCode |-> 0, notFound |-> FALSE,
          result |-> [kind |-> "none", text |-> <<>>, err |-> ""]]

\* the command before it is triggered. found: what the calls of
\* commandExists for sqlfluff returned; ran: how execAsync settled in
\* runSqlfluff and what runSqlfluff did then; messages: what the user was shown;
\* channel: the notable lines of the output channel; edits: the replacements
\* texts applied to the document or returned to the editor; raised: the
\* exceptions thrown in the handler; escaped: an exception left the handler;
\* cleanup: what became of the deletion in the finally block;
\* installs: the runs of `<python> -m pip install --user sqlfluff` started;
\* tried: the candidates of findPython checked so far; pip: how the pip run
\* ended ("none": it has not)
NoCmd ==
    [pc |-> "idle", handler |-> "none", editor |-> FALSE, doc |-> NoDocument,
     args |-> <<>>, found |-> <<>>, tried |-> 0, python |-> Null, pip |-> "none",
     consent |-> Null,
     installs |-> 0,
     tempFilePath |-> NoFile, probed |-> FALSE,
     configPath |-> Null, finalArgs |-> <<>>, execs |-> 0, ran |-> NoRun,
     formatted |-> <<>>,
     replacement |-> <<>>, messages |-> <<>>, channel |-> <<>>, edits |-> <<>>,
     raised |-> 0, escaped |-> FALSE, cleanup |-> "none"]

\* a test of `if (!editor)` that never finds the editor missing
NoActiveEditorNever(hasEditor) == FALSE

\* `if (!editor)` on vscode.window.activeTextEditor
NoActiveEditor(hasEditor) == ~hasEditor

\* what runSqlfluff gives back, and what it throws
Returned(text) == [kind |-> "returned", text |-> text, err |-> ""]
Thrown(err) == [kind |-> "thrown", text |-> <<>>, err |-> err]

\* runSqlfluff once execAsync has settled: exitCode is 0 when it resolved and
\* error.code otherwise, notFound is "stderr holds 'command not found' or 'not
\* recognized', or error.message holds ENOENT", rd the read of the file. A
\* read that fails after exit code 0 is thrown inside the try and caught by
\* the same catch, which then tests the read error: its code is not 1, it has
\* no stderr, and its message holds ENOENT only when the file is gone. A read
\* that fails after exit code 1 leaves runSqlfluff as it is.
runSqlfluff(exitCode, notFound, rd) ==
    IF exitCode = 0
    THEN IF rd.ok THEN Returned(rd.content)
         ELSE IF rd.err = "ENOENT" THEN Thrown("sqlfluff not found")
         ELSE Thrown("sqlfluff exited with code")
    ELSE IF exitCode = 1
    THEN IF rd.ok THEN Returned(rd.content) ELSE Thrown(rd.err)
    ELSE IF notFound THEN Thrown("sqlfluff not found")
    ELSE Thrown("sqlfluff exited with code")

\* the lines runSqlfluff writes to the output channel once execAsync has
\* settled: 'Exit code: 0' in the try and, when the read throws there,
\* 'Exit code: <code of the read error>' in the catch; 'Exit code: <code>' in
\* the catch of a failed run, and for exit code 1 the line on fixed files,
\* written before the file is read
runSqlfluffLines(exitCode, rd) ==
    <<"Exit code">>
    \o (IF exitCode = 0 /\ ~rd.ok THEN <<"Exit code">> ELSE <<>>)
    \o (IF exitCode = 1 THEN <<"Files were fixed successfully">> ELSE <<>>)

\* the catch of formatSqlWithSqlfluff
Caught(c, err) ==
    [c EXCEPT !.raised = @ + 1,
              !.messages = Append(@, Message("error", "SQLFluff formatting failed: " \o err)),
              !.channel = Append(@, "Error")]

\* the finally of formatSqlWithSqlfluff on the file system f: unlinkOk = FALSE
\* when fs.unlinkSync throws, which nothing catches
Finally(c, f, unlinkOk) ==
    IF c.tempFilePath # NoFile /\ c.tempFilePath \in DOMAIN f
    THEN IF unlinkOk
         THEN [fs |-> RemoveFile(f, c.tempFilePath),
               cmd |-> [c EXCEPT !.pc = "done", !.cleanup = "deleted",
                                 !.channel = Append(@, "Temp file deleted")]]
         ELSE [fs |-> f,
               cmd |-> [c EXCEPT !.pc = "done", !.cleanup = "failed",
                                 !.raised = @ + 1, !.escaped = TRUE]]
    ELSE [fs |-> f, cmd |-> [c EXCEPT !.pc = "done"]]

\* formatSqlWithSqlfluff from the resolution of the range up to the await of
\* execAsync in runSqlfluff, on the file system f: writeOk = FALSE when
\* fs.writeFileSync throws in createTempFile, rnd is Math.random(), unlinkOk
\* = FALSE when fs.unlinkSync throws in the finally block, which is reached
\* with the temp file written when findSqlfluffConfig throws
EnterFormatting(c, f, writeOk, rnd, unlinkOk) ==
    LET selIndent == getIndentation(c.doc.text)
        textWithoutIndent == removeFirstLineIndent(c.doc.text, selIndent)
        name == TempName(now, rnd)
        configPath == findSqlfluffConfig(workspaceFolders, documentFolder, existing)
        finalArgs == ensureDialect(c.args, configPath)
        c1 == [c EXCEPT !.channel = @ \o <<"-----", "Formatting", "Document">>]
        f1 == WriteFile(f, name, textWithoutIndent, "cmd")
        c2 == [c1 EXCEPT !.tempFilePath = name, !.probed = TRUE,
                         !.channel = Append(@, "Temp file")]
    IN  IF ~writeOk
        THEN Finally(Caught(c1, "write failed"), f, TRUE)
        ELSE IF configPath = TypeError
        THEN Finally(Caught(c2, TypeError), f1, unlinkOk)
        ELSE [fs |-> f1,
              cmd |-> [c2 EXCEPT
                         !.pc = "running",
                         !.configPath = configPath,
                         !.finalArgs = finalArgs,
                         !.execs = @ + 1,
                         !.channel = @
                             \o (IF configPath # Null THEN <<"Using config">>
                                 ELSE <<"No .sqlfluff config found">>)
                             \o (IF finalArgs # c.args
                                 THEN <<"No SQLFluff dialect specified">> ELSE <<>>)
                             \o <<"Executing">>]]

\* the command `sqlfluff.format`: formatSqlWithSqlfluff up to the await of
\* commandExists(sqlfluffPath)
SqlfluffFormat(hasEditor, doc, additionalArgs) ==
    /\ cmd.pc = "idle"
    /\ cmd' = IF NoActiveEditor(hasEditor)
              THEN [cmd EXCEPT !.pc = "done", !.handler = "sqlfluff.format",
                               !.messages = <<Message("error", "No active editor found.")>>]
              ELSE [cmd EXCEPT !.pc = "commandExists", !.handler = "sqlfluff.format",
                               !.editor = hasEditor, !.doc = doc,
                               !.args = additionalArgs]
    /\ UNCHANGED <<envVars, runVars, probe, txt>>

\* commandExists(sqlfluffPath) has settled
CommandExistsReturns(found, writeOk, rnd, unlinkOk) ==
    /\ cmd.pc = "commandExists"
    /\ IF found
       THEN LET e == EnterFormatting([cmd EXCEPT !.found = Append(@, found)],
                                     fs, writeOk, rnd, unlinkOk)
            IN  cmd' = e.cmd /\ fs' = e.fs
       ELSE /\ cmd' = [cmd EXCEPT !.pc = "findPython",
                                  !.found = Append(@, found),
                                  !.channel = Append(@, "sqlfluff not found at")]
            /\ UNCHANGED fs
    /\ UNCHANGED <<envVars, probe, txt, now, outcome, sqlOf, chan, tmp, proc, lint, hist>>

\* const candidates = ['python3', 'python'] of findPython
PythonCandidates == <<"python3", "python">>

\* findPython: the await of commandExists(candidate) has settled for the
\* candidate whose turn it is. The loop returns the candidate when it is
\* found, goes on to await the check of the next one, or returns null after
\* the last
FindPythonReturns(found) ==
    /\ cmd.pc = "findPython"
    /\ LET candidate == PythonCandidates[cmd.tried + 1]
       IN  cmd' = IF found
                  THEN [cmd EXCEPT !.pc = "consent", !.tried = @ + 1,
                                   !.python = candidate]
                  ELSE IF cmd.tried + 1 < Len(PythonCandidates)
                  THEN [cmd EXCEPT !.tried = @ + 1]
                  ELSE [cmd EXCEPT !.pc = "done", !.tried = @ + 1,
                                   !.messages = Append(@, Message("error",
                                       "Neither sqlfluff nor python interpreter could be found."))]
    /\ UNCHANGED <<envVars, runVars, probe, txt>>

\* a test of the answer that takes any answer for 'Install'
ConsentGivenAlways(consent) == TRUE

\* `if (consent === 'Install')`
ConsentGiven(consent) == consent = "Install"

\* the user has answered 'Install' or 'Cancel', or dismissed the question;
\* installSqlfluffWithPython starts the pip run only after 'Install'
ConsentAnswered(consent) ==
    /\ cmd.pc = "consent"
    /\ cmd' = IF ConsentGiven(consent)
              THEN [cmd EXCEPT !.pc = "installing", !.consent = consent,
                               !.installs = @ + 1,
                               !.channel = Append(@, "Installing sqlfluff using")]
              ELSE [cmd EXCEPT !.pc = "done", !.consent = consent,
                               !.messages = Append(@, Message("warning",
                                   "sqlfluff installation was cancelled."))]
    /\ UNCHANGED <<envVars, runVars, probe, txt>>

\* installSqlfluffWithPython: the await of the pip run has settled. When it
\* failed the function logs the error and returns false; when it succeeded
\* the function goes on to await commandExists('sqlfluff')
PipReturns(pipOk) ==
    /\ cmd.pc = "installing"
    /\ cmd' = IF pipOk
              THEN [cmd EXCEPT !.pc = "installCheck", !.pip = "ok"]
              ELSE [cmd EXCEPT
                      !.pc = "done", !.pip = "failed",
                      !.channel = Append(@, "sqlfluff installation error"),
                      !.messages = Append(@, Message("error", "Failed to install sqlfluff."))]
    /\ UNCHANGED <<envVars, runVars, probe, txt>>

\* installSqlfluffWithPython: commandExists('sqlfluff') has settled after the
\* pip run, and the function returns what it gave
InstallReturns(found, writeOk, rnd, unlinkOk) ==
    /\ cmd.pc = "installCheck"
    /\ LET installResult == found
           c0 == [cmd EXCEPT !.found = Append(@, found)]
       IN  IF installResult
           THEN LET e == EnterFormatting(
                            [c0 EXCEPT !.channel = Append(@, "sqlfluff installation completed.")],
                            fs, writeOk, rnd, unlinkOk)
                IN  cmd' = e.cmd /\ fs' = e.fs
           ELSE /\ cmd' = [c0 EXCEPT
                             !.pc = "done",
                             !.messages = Append(@, Message("error", "Failed to install sqlfluff."))]
                /\ UNCHANGED fs
    /\ UNCHANGED <<envVars, probe, txt, now, outcome, sqlOf, chan, tmp, proc, lint, hist>>

\* execAsync(command) has settled: the tool left the file as it was ("kept"),
\* rewrote it with content ("fixed"), the file is gone ("removed") or it is
\* there and cannot be read ("unreadable"); then runSqlfluff returns or
\* throws, and formatSqlWithSqlfluff goes on to the await of editor.edit, or
\* to its catch and finally
ExecReturns(exitCode, notFound, fileAfter, content, unlinkOk) ==
    /\ cmd.pc = "running"
    /\ LET f1 == CASE fileAfter \in {"kept", "unreadable"} -> fs
                   [] fileAfter = "fixed" ->
                         WriteFile(fs, cmd.tempFilePath, content, "cmd")
                   [] fileAfter = "removed" -> RemoveFile(fs, cmd.tempFilePath)
           rd == IF fileAfter = "unreadable" THEN Unreadable
                 ELSE ReadFile(f1, cmd.tempFilePath)
           r == runSqlfluff(exitCode, notFound, rd)
           c1 == [cmd EXCEPT !.ran = [exitCode |-> exitCode,
                                      notFound |-> exitCode # 0 /\ notFound,
                                      result |-> r],
                             !.channel = @ \o runSqlfluffLines(exitCode, rd)]
           selIndent == getIndentation(cmd.doc.text)
           docIndent == getIndentation(cmd.doc.lineText)
           fin == Finally(Caught(c1, r.err), f1, unlinkOk)
       IN  IF r.kind = "returned"
           THEN /\ fs' = f1
                /\ cmd' = [c1 EXCEPT
                             !.pc = "editing",
                             !.formatted = r.text,
                             !.replacement =
                                 normalizeEol(applyIndent(r.text, selIndent, docIndent),
                                              cmd.doc.eol)]
           ELSE /\ fs' = fin.fs
                /\ cmd' = fin.cmd
    /\ UNCHANGED <<envVars, probe, txt, now, outcome, sqlOf, chan, tmp, proc, lint, hist>>

\* editor.edit(...) has settled: the edit was applied, it was refused (the
\* promise gives false) or the call threw; then the catch and the finally
EditReturns(result, unlinkOk) ==
    /\ cmd.pc = "editing"
    /\ LET c1 == CASE result = "applied" ->
                        [cmd EXCEPT !.edits = Append(@, Replace(RangeOf(cmd.doc),
                                                                cmd.replacement)),
                                    !.channel = Append(@, "Formatting completed successfully.")]
                   [] result = "refused" ->
                        [cmd EXCEPT !.channel = Append(@, "Formatting completed successfully.")]
                   [] result = "throws" -> Caught(cmd, "edit failed")
           fin == Finally(c1, fs, unlinkOk)
       IN  fs' = fin.fs /\ cmd' = fin.cmd
    /\ UNCHANGED <<envVars, probe, txt, now, outcome, sqlOf, chan, tmp, proc, lint, hist>>

\* the command `sqlfluff-formatter.formatSQL` (handler "formatSQL") and the
\* providers provideDocumentFormattingEdits / provideDocumentRangeFormattingEdits
\* (handler "provider") up to the await of formatter.formatDocument or
\* formatRange, which hands the text to formatSQL. hasEditor is
\* vscode.window.activeTextEditor for the command and `editor &&
\* editor.document === document` for a provider, which returns [] without it
FormatHandler(handler, hasEditor, doc, writeOk, spawnThrows, modWriteOk, modSpawnThrows, elapsed) ==
    /\ cmd.pc = "idle"
    /\ IF NoActiveEditor(hasEditor)
       THEN /\ cmd' = [cmd EXCEPT
                         !.pc = "done", !.handler = handler,
                         !.messages = IF handler = "formatSQL"
                                      THEN <<Message("error", "No active editor found")>>
                                      ELSE <<>>]
            /\ UNCHANGED <<envVars, runVars, probe, txt>>
       ELSE /\ cmd' = [cmd EXCEPT
                         !.pc = "formatDocument", !.handler = handler,
                         !.editor = hasEditor, !.doc = doc,
                         !.channel = IF handler = "formatSQL"
                                     THEN <<"SQLFluff Formatter - Starting">> ELSE <<>>]
            /\ StartFormatSQL("f1", doc.text, TRUE, writeOk, spawnThrows,
                              modWriteOk, modSpawnThrows, elapsed)

\* the catch of the command and of the providers in extension.ts
FormatError(c, err) ==
    [c EXCEPT !.pc = "done", !.raised = @ + 1,
              !.messages = Append(@, Message("error", "Format error: " \o err)),
              !.channel = Append(@, "Format error")]

\* formatSQL has settled: formatDocument / formatRange returns the edit to a
\* provider or goes on to the await of vscode.workspace.applyEdit; a rejection
\* reaches the catch of the handler
FormatSQLSettled ==
    /\ cmd.pc = "formatDocument"
    /\ outcome["f1"].kind # "pending"
    /\ cmd' = IF outcome["f1"].kind = "rejected"
              THEN FormatError(cmd, outcome["f1"].err.type)
              ELSE IF cmd.handler = "provider"
              THEN [cmd EXCEPT !.pc = "done", !.formatted = outcome["f1"].text,
                               !.edits = Append(@, Replace(RangeOf(cmd.doc),
                                                           outcome["f1"].text))]
              ELSE [cmd EXCEPT !.pc = "applyEdit", !.formatted = outcome["f1"].text,
                               !.replacement = outcome["f1"].text]
    /\ UNCHANGED <<envVars, runVars, probe, txt>>

\* vscode.workspace.applyEdit(edit) has settled, and the command ends
ApplyEditReturns(result) ==
    /\ cmd.pc = "applyEdit"
    /\ cmd' = IF result = "throws" THEN FormatError(cmd, "edit failed")
              ELSE [cmd EXCEPT
                      !.pc = "done",
                      !.edits = IF result = "applied"
                                THEN Append(@, Replace(RangeOf(cmd.doc), cmd.replacement))
                                ELSE @,
                      !.messages = Append(@, Message("info", "SQL formatted successfully")),
                      !.channel = Append(@, "Formatting completed successfully")]
    /\ UNCHANGED <<envVars, runVars, probe, txt>>

(***************************************************************************)
(* The formatting runs.                                                    *)
(***************************************************************************)
\* threw: findSqlfluffConfig threw, so that ensureDialect was not called
NoDialectProbe ==
    [called |-> FALSE, threw |-> FALSE, args |-> <<>>, configPath |-> Null, out |-> <<>>]

NoProbe == [resolve |-> "unset", find |-> "unset",
            fix |-> <<"unset">>, lint |-> <<"unset">>, dialect |-> NoDialectProbe]

\* no text function applied to the text yet: calls are the functions applied,
\* in order, args their other arguments, value the last result and prev the
\* one before it
NoCalls(text) ==
    [text |-> text, calls |-> <<>>, args |-> <<>>, prev |-> text, value |-> text]

RunInit ==
    /\ now = 0
    /\ fs = << >>
    /\ outcome = [i \in Invocations |-> Pending]
    /\ sqlOf = [i \in Invocations |-> <<>>]
    /\ chan = [i \in Invocations |-> FALSE]
    /\ tmp = [i \in Invocations |-> [s \in Strategies |-> NoFile]]
    /\ proc = [i \in Invocations |-> [s \in Strategies |-> NoProc]]
    /\ lint = [i \in Invocations |-> NoLint]
    /\ hist = [i \in Invocations |-> <<>>]

Init ==
    /\ \E e \in RunSettings :
          /\ workspaceFolders = e.ws
          /\ documentFolder = e.doc
          /\ existing = e.present
          /\ excludeRules = e.rules
    /\ probe = NoProbe
    /\ txt = NoCalls(<<>>)
    /\ cmd = NoCmd
    /\ unlinkFails = FALSE
    /\ RunInit

Next ==
    \/ \E i \in Formatting, sql \in SqlInputs, ch, w, st, mw, mst \in BOOLEAN,
          el \in Elapsed :
          FormatSQL(i, sql, ch, w, st, mw, mst, el)
    \/ \E i \in Formatting, s \in Strategies, rm \in BOOLEAN, c \in ToolOutputs :
          ToolWrite(i, s, rm, c)
    \/ \E i \in Formatting, mw, mst \in BOOLEAN : DirectError(i, mw, mst)
    \/ \E i \in Formatting, code \in ExitCodes, mw, mst, lw, lst, la \in BOOLEAN :
          DirectClose(i, code, mw, mst, lw, lst, la)
    \/ \E i \in Formatting : ModuleError(i)
    \/ \E i \in Formatting, code \in ExitCodes, e \in StderrChoices,
          lw, lst, la \in BOOLEAN :
          ModuleClose(i, code, e, lw, lst, la)
    \/ \E i \in Formatting : LintClose(i)
    \/ \E i \in Formatting : LintError(i)
    \/ Tick

Spec == Init /\ [][Next]_vars

(***************************************************************************)
(* Direct calls of the configuration functions, under every setting.       *)
(***************************************************************************)
\* this.resolveConfigPath(outputChannel)
CallResolveConfigPath ==
    /\ probe.resolve = "unset"
    /\ probe' = [probe EXCEPT !.resolve = resolveConfigPath(workspaceOpen, existing)]
    /\ UNCHANGED <<envVars, runVars, txt, cmd>>

\* findSqlfluffConfig(document)
CallFindSqlfluffConfig ==
    /\ probe.find = "unset"
    /\ probe' = [probe EXCEPT !.find = findSqlfluffConfig(workspaceFolders, documentFolder, existing)]
    /\ UNCHANGED <<envVars, runVars, txt, cmd>>

\* this.buildFixArgs(outputChannel)
CallBuildFixArgs ==
    /\ probe.fix = <<"unset">>
    /\ probe' = [probe EXCEPT !.fix = buildFixArgs(excludeRules, workspaceOpen, existing)]
    /\ UNCHANGED <<envVars, runVars, txt, cmd>>

\* this.buildLintArgs(outputChannel)
CallBuildLintArgs ==
    /\ probe.lint = <<"unset">>
    /\ probe' = [probe EXCEPT !.lint = buildLintArgs(excludeRules, workspaceOpen, existing)]
    /\ UNCHANGED <<envVars, runVars, txt, cmd>>

\* const configPath = findSqlfluffConfig(document);
\* const finalArgs = ensureDialect(additionalArgs, configPath);
CallEnsureDialect(additionalArgs) ==
    /\ ~probe.dialect.called
    /\ ~probe.dialect.threw
    /\ LET configPath == findSqlfluffConfig(workspaceFolders, documentFolder, existing)
       IN  probe' = IF configPath = TypeError
                    THEN [probe EXCEPT !.dialect.threw = TRUE]
                    ELSE [probe EXCEPT !.dialect =
                            [called |-> TRUE, threw |-> FALSE, args |-> additionalArgs,
                             configPath |-> configPath,
                             out |-> ensureDialect(additionalArgs, configPath)]]
    /\ UNCHANGED <<envVars, runVars, txt, cmd>>

ConfigInit ==
    /\ \E w \in Workspaces :
          /\ workspaceFolders = w.ws
          /\ documentFolder = w.doc
    /\ existing \in SUBSET ConfigCandidates
    /\ excludeRules \in RuleLists
    /\ probe = NoProbe
    /\ txt = NoCalls(<<>>)
    /\ cmd = NoCmd
    /\ unlinkFails = FALSE
    /\ RunInit

ConfigNext ==
    \/ CallResolveConfigPath
    \/ CallFindSqlfluffConfig
    \/ CallBuildFixArgs
    \/ CallBuildLintArgs
    \/ \E a \in UserArgLists : CallEnsureDialect(a)

ConfigSpec == ConfigInit /\ [][ConfigNext]_vars

(***************************************************************************)
(* Direct calls of the text functions, on every text up to MaxTextLen      *)
(* characters and on statements of the shape                               *)
(* SELECT <col>, <col> FROM <table> WHERE <cond>.                          *)
(***************************************************************************)
TextAlphabet == {" ", "\t", "\r", "\n", "x"}

Texts == UNION { [1..n -> TextAlphabet] : n \in 0..MaxTextLen }

\* indent strings
Indents == { <<>>, <<" ">>, <<" ", " ">>, <<"\t">> }

Columns == { <<"a">>, <<"b">>, <<"c", "1">> }
Tables == { <<"t">> }
Conditions == { <<"x", "=", "1">>, <<"x", " ", "=", " ", "1">> }

ShapeStatement(c1, c2, tb, cond) ==
    Letters("SELECT") \o <<" ">> \o c1 \o <<",", " ">> \o c2 \o <<" ">>
    \o Letters("FROM") \o <<" ">> \o tb \o <<" ">>
    \o Letters("WHERE") \o <<" ">> \o cond

ShapeStatements ==
    { ShapeStatement(c1, c2, tb, cond) :
        c1 \in Columns, c2 \in Columns, tb \in Tables, cond \in Conditions }

\* compact statements: clause keywords that follow one another, a keyword at
\* the end of the text, commas with and without whitespace after them, on one
\* line or two
CompoundStatements ==
    { <<"a", " ">> \o Letters("UNION") \o <<" ">> \o Letters("SELECT") \o <<" ", "b">>,
      <<"a", " ">> \o Letters("UNION") \o <<" ">> \o Letters("ALL") \o <<" ">>
          \o Letters("SELECT") \o <<" ", "b">>,
      <<"a", "\n">> \o Letters("UNION") \o <<" ", " ">> \o Letters("SELECT") \o <<" ", "b">>,
      <<"a", " ">> \o Letters("FROM") \o <<" ", "t", " ">> \o Letters("GROUP")
          \o <<" ">> \o Letters("BY") \o <<" ", "a", ",", "b">>,
      Letters("SELECT") \o <<" ", "a", ",", "b", ",", " ", "c", " ">>
          \o Letters("FROM") \o <<" ", "t">>,
      <<"a", ",", "b">>,
      <<"a", ",", "\n", "b", ",">>,
      <<"f", "(", "a", ",", "b", ")", ",", "\t", "c">> }

\* every text up to MaxSpaceLen characters over form feed, no-break space,
\* newline and 'x', and the other whitespace characters before an 'x'
MaxSpaceLen == 3

SpaceTexts ==
    UNION { [1..n -> {FormFeed, NoBreakSpace, "\n", "x"}] : n \in 0..MaxSpaceLen }
        \cup { <<c, "x">> : c \in WhiteSpace }

\* every text up to MaxCommaLen characters over comma, space, newline and 'x'
MaxCommaLen == 3

CommaTexts == UNION { [1..n -> {",", " ", "\n", "x"}] : n \in 0..MaxCommaLen }

\* one more function applied: fn to the current value, giving result
Called(fn, fnArgs, result) ==
    [txt EXCEPT !.calls = Append(@, fn), !.args = @ \o fnArgs,
                !.prev = txt.value, !.value = result]

\* getIndentation(text)
CallGetIndentation ==
    /\ txt.calls = <<>>
    /\ txt' = Called("getIndentation", <<>>, getIndentation(txt.value))
    /\ UNCHANGED <<envVars, runVars, probe, cmd>>

\* removeFirstLineIndent(textToFormat, selIndent)
CallRemoveFirstLineIndent(indent) ==
    /\ txt.calls = <<>>
    /\ txt' = Called("removeFirstLineIndent", <<indent>>,
                     removeFirstLineIndent(txt.value, indent))
    /\ UNCHANGED <<envVars, runVars, probe, cmd>>

\* applyIndent(formattedText, selIndent, docIndent), on the text itself or on
\* what removeFirstLineIndent gave for selIndent (the tool changing nothing)
CallApplyIndent(firstIndent, otherIndent) ==
    /\ \/ txt.calls = <<>>
       \/ txt.calls = <<"removeFirstLineIndent">> /\ txt.args = <<firstIndent>>
    /\ txt' = Called("applyIndent", <<firstIndent, otherIndent>>,
                     applyIndent(txt.value, firstIndent, otherIndent))
    /\ UNCHANGED <<envVars, runVars, probe, cmd>>

\* normalizeEol(text, eol), on the text itself or on a result of normalizeEol
CallNormalizeEol(targetEol) ==
    /\ txt.calls \in {<<>>, <<"normalizeEol">>}
    /\ txt' = Called("normalizeEol", <<targetEol>>,
                     normalizeEol(txt.value, targetEol))
    /\ UNCHANGED <<envVars, runVars, probe, cmd>>

\* this.preprocessSQL(sql)
CallPreprocessSQL ==
    /\ txt.calls = <<>>
    /\ txt' = Called("preprocessSQL", <<>>, preprocessSQL(txt.value))
    /\ UNCHANGED <<envVars, runVars, probe, cmd>>

TextInit ==
    /\ workspaceFolders = NoWorkspace
    /\ documentFolder = Undefined
    /\ existing = {}
    /\ excludeRules = <<>>
    /\ probe = NoProbe
    /\ \E t \in Texts \cup ShapeStatements \cup CompoundStatements \cup CommaTexts
                  \cup SpaceTexts :
          txt = NoCalls(t)
    /\ cmd = NoCmd
    /\ unlinkFails = FALSE
    /\ RunInit

TextNext ==
    \/ CallGetIndentation
    \/ \E indent \in Indents : CallRemoveFirstLineIndent(indent)
    \/ \E first \in Indents, other \in Indents : CallApplyIndent(first, other)
    \/ \E eol \in {Lf, CrLf} : CallNormalizeEol(eol)
    \/ CallPreprocessSQL

TextSpec == TextInit /\ [][TextNext]_vars

(***************************************************************************)
(* Two formatting invocations at once. The external tool fixes the file it *)
(* was given in place and closes after that; nothing else fails, and no    *)
(* output channel is given.                                                *)
(***************************************************************************)
\* the text each invocation is asked to format
SqlOfInvocation == [f1 |-> <<"a", ",", " ", "b">>, f2 |-> <<"b">>]

\* what `sqlfluff fix` leaves of a file: here, the text ending in one newline
ToolFix(text) ==
    IF text # <<>> /\ text[Len(text)] = "\n" THEN text ELSE text \o <<"\n">>

\* the process of strategy s fixes the file at its tmpFile path
ToolFixes(i, s) ==
    /\ tmp[i][s] \in DOMAIN fs
    /\ ToolWrite(i, s, FALSE, ToolFix(fs[tmp[i][s]].content))

ConcurrentInit ==
    /\ workspaceFolders = NoWorkspace
    /\ documentFolder = Undefined
    /\ existing = {}
    /\ excludeRules = <<>>
    /\ probe = NoProbe
    /\ txt = NoCalls(<<>>)
    /\ cmd = NoCmd
    /\ unlinkFails = FALSE
    /\ RunInit

ConcurrentNext ==
    \/ \E i \in Invocations :
          FormatSQL(i, SqlOfInvocation[i], FALSE, TRUE, FALSE, TRUE, FALSE, 0)
    \/ \E i \in Invocations, s \in Strategies : ToolFixes(i, s)
    \/ \E i \in Invocations : DirectError(i, TRUE, FALSE)
    \/ \E i \in Invocations, code \in ExitCodes :
          DirectClose(i, code, TRUE, FALSE, TRUE, FALSE, FALSE)
    \/ \E i \in Invocations : ModuleError(i)
    \/ \E i \in Invocations, code \in ExitCodes :
          ModuleClose(i, code, <<>>, TRUE, FALSE, FALSE)
    \/ Tick

ConcurrentSpec == ConcurrentInit /\ [][ConcurrentNext]_vars

(***************************************************************************)
(* A formatting run in a temp directory whose files can be deleted, and in *)
(* one where fs.unlinkSync throws on them (EPERM, EBUSY).                  *)
(***************************************************************************)
CleanupInit ==
    /\ workspaceFolders = NoWorkspace
    /\ documentFolder = Undefined
    /\ existing = {}
    /\ excludeRules = <<>>
    /\ probe = NoProbe
    /\ txt = NoCalls(<<>>)
    /\ cmd = NoCmd
    /\ unlinkFails \in BOOLEAN
    /\ RunInit

CleanupNext ==
    \/ \E ch, w, st, mw, mst \in BOOLEAN, el \in Elapsed :
          FormatSQL("f1", <<"a", ",", " ", "b">>, ch, w, st, mw, mst, el)
    \/ \E s \in Strategies, rm \in BOOLEAN, c \in ToolOutputs : ToolWrite("f1", s, rm, c)
    \/ \E mw, mst \in BOOLEAN : DirectError("f1", mw, mst)
    \/ \E code \in ExitCodes, mw, mst, lw, lst \in BOOLEAN :
          DirectClose("f1", code, mw, mst, lw, lst, FALSE)
    \/ ModuleError("f1")
    \/ \E code \in ExitCodes, lw, lst \in BOOLEAN :
          ModuleClose("f1", code, <<>>, lw, lst, FALSE)
    \/ LintClose("f1")
    \/ LintError("f1")
    \/ Tick

CleanupSpec == CleanupInit /\ [][CleanupNext]_vars

\* a process spawned for a fix strategy of invocation i emits 'error' or
\* 'close'
ProcessEvent(i) ==
    \/ \E mw, mst \in BOOLEAN : DirectError(i, mw, mst)
    \/ \E code \in ExitCodes, mw, mst, lw, lst \in BOOLEAN :
          DirectClose(i, code, mw, mst, lw, lst, FALSE)
    \/ ModuleError(i)
    \/ \E code \in ExitCodes, lw, lst \in BOOLEAN :
          ModuleClose(i, code, <<>>, lw, lst, FALSE)

\* the formatting run when every spawned process eventually emits an event
LiveSpec == CleanupInit /\ [][CleanupNext]_vars /\ WF_vars(ProcessEvent("f1"))

(***************************************************************************)
(* One command or provider call at a time, from its trigger to its end.    *)
(***************************************************************************)
CommandInit ==
    /\ \E e \in CommandSettings :
          /\ workspaceFolders = e.ws
          /\ documentFolder = e.doc
          /\ existing = e.present
          /\ excludeRules = e.rules
    /\ probe = NoProbe
    /\ txt = NoCalls(<<>>)
    /\ cmd = NoCmd
    /\ unlinkFails = FALSE
    /\ RunInit

CommandNext ==
    \/ \E ed \in BOOLEAN, d \in Documents,
          a \in {<<>>, <<"--dialect", "mysql">>} : SqlfluffFormat(ed, d, a)
    \/ \E found, w, u \in BOOLEAN, r \in Randoms : CommandExistsReturns(found, w, r, u)
    \/ \E found \in BOOLEAN : FindPythonReturns(found)
    \/ \E answer \in {"Install", "Cancel", Null} : ConsentAnswered(answer)
    \/ \E pip \in BOOLEAN : PipReturns(pip)
    \/ \E found, w, u \in BOOLEAN, r \in Randoms : InstallReturns(found, w, r, u)
    \/ /\ cmd.pc = "running"
       /\ \E code \in CommandExitCodes, nf \in BOOLEAN,
             after \in {"kept", "fixed", "removed", "unreadable"},
             c \in CommandToolOutputs,
             u \in BOOLEAN : ExecReturns(code, nf, after, c, u)
    \/ \E result \in {"applied", "refused", "throws"}, u \in BOOLEAN :
          EditReturns(result, u)
    \/ /\ cmd.pc = "idle"
       /\ \E h \in {"formatSQL", "provider"}, ed, w, st, mw, mst \in BOOLEAN,
             d \in WholeDocuments, el \in Elapsed :
             FormatHandler(h, ed, d, w, st, mw, mst, el)
    \/ \E s \in Strategies, c \in ToolOutputs : ToolWrite("f1", s, FALSE, c)
    \/ DirectError("f1", TRUE, FALSE)
    \/ \E code \in {0, 2}, la \in BOOLEAN :
          DirectClose("f1", code, TRUE, FALSE, TRUE, FALSE, la)
    \/ ModuleError("f1")
    \/ \E code \in {0, 2} : ModuleClose("f1", code, <<>>, TRUE, FALSE, FALSE)
    \/ LintClose("f1")
    \/ LintError("f1")
    \/ FormatSQLSettled
    \/ \E result \in {"applied", "refused", "throws"} : ApplyEditReturns(result)
    \/ Tick

CommandSpec == CommandInit /\ [][CommandNext]_vars

(***************************************************************************)
(* Properties of the formatting runs.                                      *)
(***************************************************************************)
Settled(i) == outcome[i].kind # "pending"

\* the text holds at least one character that is not whitespace
NonBlank(text) == \E k \in 1..Len(text) : ~IsSpace(text[k])

\* the k-th event of invocation i is the close of strategy s's process, acted upon
IsClose(i, k, s) == hist[i][k].ev = "close" /\ hist[i][k].s = s

\* no strategy is entered after the k-th event of invocation i
NoEscalationAfter(i, k) ==
    \A j \in DOMAIN hist[i] : j > k => hist[i][j].ev # "enter"

\* invocation i resolved with the text its k-th event read from the temp file
ResolvedWithRead(i, k) ==
    /\ outcome[i].kind = "resolved"
    /\ outcome[i].text = hist[i][k].content
    /\ NoEscalationAfter(i, k)

\* C1: once an invocation has settled, no temp file that it created for a fix
\* strategy still exists, on any exit path.
C1_NoTempFileOnceSettled ==
    \A i \in Invocations :
        Settled(i) =>
            \A n \in DOMAIN fs : ~(n.kind = "fix" /\ fs[n].creator = i)

\* C2: on either strategy, a close with exit code 0 resolves the invocation
\* with the temp file's content, whatever it is, without escalating.
C2_ExitZeroResolves ==
    \A i \in Invocations : \A k \in DOMAIN hist[i] :
        (hist[i][k].ev = "close" /\ hist[i][k].code = 0 /\ hist[i][k].readable)
            => ResolvedWithRead(i, k)

\* C3 as stated: on either strategy, a close with a non-zero exit code and a
\* readable, non-empty temp file resolves the invocation with that content,
\* without escalating and without an error.
C3_NonEmptyIsSoftSuccess ==
    \A i \in Invocations : \A k \in DOMAIN hist[i] :
        (/\ hist[i][k].ev = "close"
         /\ hist[i][k].code # 0
         /\ hist[i][k].readable
         /\ hist[i][k].content # <<>>)
            => ResolvedWithRead(i, k)

\* C3 with "non-empty" read as "holding at least one non-whitespace
\* character": on either strategy, a close with a non-zero exit code and such
\* a readable temp file resolves the invocation with that content, without
\* escalating and without an error.
C3_NonBlankIsSoftSuccess ==
    \A i \in Invocations : \A k \in DOMAIN hist[i] :
        (/\ hist[i][k].ev = "close"
         /\ hist[i][k].code # 0
         /\ hist[i][k].readable
         /\ NonBlank(hist[i][k].content))
            => ResolvedWithRead(i, k)

\* the direct binary exited with code 1, left SQL in the file, and the
\* invocation resolved
C3_Witness ==
    \E i \in Invocations : \E k \in DOMAIN hist[i] :
        /\ IsClose(i, k, "direct")
        /\ hist[i][k].code = 1
        /\ NonBlank(hist[i][k].content)
        /\ outcome[i].kind = "resolved"

\* the direct strategy failed: its process reported a spawn error, or closed
\* with a non-zero exit code leaving an empty or unreadable temp file
DirectFailed(e) ==
    /\ e.s = "direct"
    /\ \/ e.ev = "error"
       \/ e.ev = "close" /\ e.code # 0 /\ (~e.readable \/ e.content = <<>>)

\* C4: a failure of the direct-binary strategy does not fail the invocation:
\* the interpreter-module strategy is entered next, and if the invocation is
\* rejected, it is rejected by the module strategy, the last one.
C4_DirectFailureEscalates ==
    \A i \in Invocations : \A k \in DOMAIN hist[i] :
        DirectFailed(hist[i][k]) =>
            /\ k < Len(hist[i])
            /\ hist[i][k + 1] = Ev("enter", "module")
            /\ \A j \in DOMAIN hist[i] :
                  hist[i][j].ev = "reject" => (j > k + 1 /\ hist[i][j].s = "module")

\* the direct binary exited with code 2 leaving an empty file, and the module
\* strategy's process is running
C4_Witness ==
    \E i \in Invocations : \E k \in DOMAIN hist[i] :
        /\ IsClose(i, k, "direct")
        /\ hist[i][k].code = 2
        /\ hist[i][k].readable /\ hist[i][k].content = <<>>
        /\ proc[i].module.live
        /\ outcome[i].kind = "pending"

\* C5: the module strategy is entered only right after the direct attempt has
\* ended (synchronous exception, spawn error or close) without a result, never
\* while the direct handlers may still act, and never after a resolve.
C5_StrategiesInOrder ==
    \A i \in Invocations : \A k \in DOMAIN hist[i] :
        hist[i][k] = Ev("enter", "module") =>
            /\ k > 1
            /\ hist[i][k - 1].s = "direct"
            /\ hist[i][k - 1].ev \in {"syncThrow", "error", "close"}
            /\ \A j \in 1..(k - 1) : hist[i][j].ev # "resolve"
            /\ \A j \in 1..(k - 1) : hist[i][j] # Ev("enter", "module")
            /\ ~proc[i].direct.isProcessing

\* the module strategy's process runs after the direct process has closed
C5_Witness ==
    \E i \in Invocations : \E k \in DOMAIN hist[i] :
        /\ k > 1
        /\ hist[i][k] = Ev("enter", "module")
        /\ IsClose(i, k - 1, "direct")
        /\ proc[i].module.live

\* C6: when the direct-binary and the interpreter-module strategy have both
\* failed, a third strategy (the library API through the interpreter) is
\* attempted before the invocation is failed.
C6_LibraryStrategyAttempted ==
    \A i \in Invocations :
        (/\ outcome[i].kind = "rejected"
         /\ \E k \in DOMAIN hist[i] : hist[i][k] = Ev("reject", "module"))
            => \E k \in DOMAIN hist[i] :
                  hist[i][k].ev = "enter" /\ hist[i][k].s = "library"

\* C7: when the module strategy closes with a non-zero exit code and an empty
\* or unreadable temp file, the invocation is rejected with an error that
\* quotes a prefix of stderr of at most 500 characters (all of stderr when it
\* is shorter), or names the exit code when stderr is empty.
C7_TerminalErrorBounded ==
    \A i \in Invocations : \A k \in DOMAIN hist[i] :
        (/\ IsClose(i, k, "module")
         /\ hist[i][k].code # 0
         /\ (~hist[i][k].readable \/ hist[i][k].content = <<>>))
            => LET e == outcome[i].err
                   stderr == hist[i][k].stderr
               IN  /\ outcome[i].kind = "rejected"
                   /\ Len(e.detail) <= 500
                   /\ Len(e.detail) <= Len(stderr)
                   /\ e.detail = SubSeq(stderr, 1, Len(e.detail))
                   /\ (Len(stderr) <= 500 => e.detail = stderr)
                   /\ IF stderr = <<>>
                      THEN e.type = "sqlfluff formatting failed with code"
                           /\ e.code = hist[i][k].code
                      ELSE e.type = "sqlfluff error"

\* the module strategy failed with more than 500 characters of stderr, of
\* which the error quotes 500
C7_Witness ==
    \E i \in Invocations : \E k \in DOMAIN hist[i] :
        /\ IsClose(i, k, "module")
        /\ hist[i][k].code = 2
        /\ Len(hist[i][k].stderr) > 500
        /\ outcome[i].kind = "rejected"
        /\ Len(outcome[i].err.detail) = 500

(***************************************************************************)
(* Properties of the configuration functions.                              *)
(***************************************************************************)
\* the candidates in the order of their priority
CandidateOrder == <<WorkspaceConfig, HomeConfig, DefaultConfig>>

\* the candidates that exist (the workspace's only when a workspace is open)
Available ==
    {k \in 1..3 : CandidateOrder[k] \in existing /\ (k = 1 => workspaceOpen)}

FirstAvailable ==
    IF Available = {} THEN Null
    ELSE CandidateOrder[CHOOSE k \in Available : \A j \in Available : k <= j]

\* C8: resolveConfigPath returns the first existing file among the workspace's
\* .sqlfluff, the home directory's .sqlfluff and the bundled .sqlfluff.default,
\* and null exactly when none of them exists.
C8_FirstExistingConfig ==
    probe.resolve # "unset" =>
        /\ probe.resolve = FirstAvailable
        /\ (probe.resolve = Null <=> Available = {})

\* the workspace has no .sqlfluff, the home directory and the extension have
\* one, and the home directory's was returned
C8_Witness ==
    /\ workspaceOpen
    /\ existing = {HomeConfig, DefaultConfig}
    /\ probe.resolve = HomeConfig

\* C9: with no workspace folder open and <home>/.sqlfluff present, config
\* resolution returns <home>/.sqlfluff.
C9_HomeConfigWithoutWorkspace ==
    (~workspaceOpen /\ HomeConfig \in existing) =>
        /\ probe.resolve \in {"unset", HomeConfig}
        /\ probe.find \in {"unset", HomeConfig}

\* the rules joined by commas (the model's rule lists hold at most two rules)
CommaJoined(rules) ==
    IF Len(rules) = 1 THEN rules[1] ELSE rules[1] \o "," \o rules[2]

\* the arguments C10 states for fix, up to and including --nocolor
StatedCommonArgs ==
    LET configPath == resolveConfigPath(workspaceOpen, existing)
    IN  (IF excludeRules # <<>>
         THEN <<"--exclude-rules", CommaJoined(excludeRules)>> ELSE <<>>)
        \o (IF configPath # Null THEN <<"--config", configPath>> ELSE <<>>)
        \o <<"--nocolor">>

\* C10: the fix arguments are --exclude-rules <csv> iff rules are configured,
\* --config <path> iff a config was resolved, --nocolor, --force, in this
\* order; the lint arguments are the same list without --force.
C10_ArgumentLists ==
    /\ probe.fix # <<"unset">> => probe.fix = StatedCommonArgs \o <<"--force">>
    /\ probe.lint # <<"unset">> =>
          /\ probe.lint = StatedCommonArgs
          /\ \A k \in DOMAIN probe.lint : probe.lint[k] # "--force"

\* both lists were built with two excluded rules and a resolved config
C10_Witness ==
    /\ excludeRules = <<"L009", "L027">>
    /\ resolveConfigPath(workspaceOpen, existing) # Null
    /\ probe.fix # <<"unset">>
    /\ probe.lint # <<"unset">>
    /\ Len(probe.fix) = 6
    /\ Len(probe.lint) = 5

(***************************************************************************)
(* Properties of the dialect default.                                      *)
(***************************************************************************)
\* the argument names the dialect option: the option alone, followed by its
\* value in the next argument, or the option with its value attached
NamesDialect(arg) == arg \in {"--dialect", "-d", "--dialect=mysql"}

\* the user-supplied arguments carry an explicit dialect flag
ExplicitDialect(args) == \E k \in 1..Len(args) : NamesDialect(args[k])

\* the list holds '--dialect' followed by 'ansi'
ContainsDialectAnsi(args) ==
    \E k \in 1..(Len(args) - 1) : args[k] = "--dialect" /\ args[k + 1] = "ansi"

\* C11: when no config file was resolved and the user-supplied arguments hold
\* no explicit --dialect / -d flag, the built list contains '--dialect ansi';
\* when a config file was resolved, or the user arguments already carry an
\* explicit dialect flag, nothing is added and the user arguments are passed
\* through unchanged.
C11_DialectDefault ==
    probe.dialect.called =>
        IF probe.dialect.configPath = Null /\ ~ExplicitDialect(probe.dialect.args)
        THEN ContainsDialectAnsi(probe.dialect.out)
        ELSE probe.dialect.out = probe.dialect.args

(***************************************************************************)
(* Properties of the lint run.                                             *)
(***************************************************************************)
\* what the close handler that recorded e settles the invocation with when no
\* output channel is given, so that no lint is run; Pending when it escalates
SettlesWithoutLint(e) ==
    LET rd == [ok |-> e.readable, content |-> e.content]
    IN  IF e.s = "direct"
        THEN IF DirectCloseResolves(e.code, rd) THEN Resolved(e.content) ELSE Pending
        ELSE CASE ModuleCloseDecision(e.code, rd) = "resolve" -> Resolved(e.content)
               [] ModuleCloseDecision(e.code, rd) = "throw" ->
                     Rejected(IoError("read failed"))
               [] ModuleCloseDecision(e.code, rd) = "reject" ->
                     Rejected(TerminalError(e.code, e.stderr))

\* C12: lint is fire-and-forget: when an output channel is given, whatever the
\* lint step does (its temp-file write, its argument building or its spawn
\* fails, it ends before or after the result is delivered, or never), the
\* invocation settles with the content or error it settles with when no lint
\* is run.
C12_LintDoesNotAffectResult ==
    \A i \in Invocations : \A k \in DOMAIN hist[i] :
        (/\ hist[i][k].ev = "close"
         /\ chan[i]
         /\ SettlesWithoutLint(hist[i][k]) # Pending)
            => outcome[i] = SettlesWithoutLint(hist[i][k])

(***************************************************************************)
(* Properties of concurrent invocations.                                   *)
(***************************************************************************)
\* C13: concurrent invocations are independent: two invocations whose
\* strategies are in progress at the same time hold different temp-file
\* paths, a temp file that an invocation works on was created by it, and an
\* invocation that resolves returns the formatted form of its own input.
C13_ConcurrentInvocationsIndependent ==
    \A i \in Invocations :
        /\ \A j \in Invocations \ {i} : \A s, r \in Strategies :
              (proc[i][s].isProcessing /\ proc[j][r].isProcessing)
                  => tmp[i][s] # tmp[j][r]
        /\ \A s \in Strategies :
              (proc[i][s].isProcessing /\ tmp[i][s] \in DOMAIN fs)
                  => fs[tmp[i][s]].creator = i
        /\ outcome[i].kind = "resolved" => outcome[i].text = ToolFix(sqlOf[i])

(***************************************************************************)
(* Properties of the text functions.                                       *)
(***************************************************************************)
\* the first line of a text, a line ending at "\r\n" or "\n"
FirstLine(t) == SplitLines(t, <<>>)[1]

\* the line holds at most whitespace
Blank(line) == \A k \in 1..Len(line) : IsSpace(line[k])

\* restore(strip(T, I), I, I) has been computed, for a text T whose first line
\* starts with I
RoundTripDone(I) ==
    /\ txt.calls = <<"removeFirstLineIndent", "applyIndent">>
    /\ txt.args = <<I, I, I>>
    /\ StartsWith(FirstLine(txt.text), I)

\* C14 as stated: for every indent I and every text T whose first line starts
\* with I, the first line of restore(strip(T, I), I, I) has the leading
\* indentation I.
C14_RoundTripIndentEqual ==
    \A I \in Indents :
        RoundTripDone(I) => LeadingSpace(FirstLine(txt.value)) = I

\* C14 amended: for every indent I and every text T whose first line starts
\* with I and holds a character that is not whitespace, the first line of
\* restore(strip(T, I), I, I) starts with I and has the leading indentation of
\* T's first line, which is I when I is the whole of that indentation.
C14_RoundTripKeepsIndentation ==
    \A I \in Indents :
        (RoundTripDone(I) /\ ~Blank(FirstLine(txt.text))) =>
            /\ StartsWith(FirstLine(txt.value), I)
            /\ LeadingSpace(FirstLine(txt.value)) = LeadingSpace(FirstLine(txt.text))
            /\ (LeadingSpace(FirstLine(txt.text)) = I
                   => LeadingSpace(FirstLine(txt.value)) = I)

\* the round trip of " x\nx" with the indent " " gave the first line " x"
C14_Witness ==
    /\ RoundTripDone(<<" ">>)
    /\ txt.text = <<" ", "x", "\n", "x">>
    /\ FirstLine(txt.value) = <<" ", "x">>

\* C15: normalizeEol is idempotent: for every text and every target e,
\* normalizeEol(normalizeEol(t, e), e) = normalizeEol(t, e).
C15_NormalizeEolIdempotent ==
    (/\ txt.calls = <<"normalizeEol", "normalizeEol">>
     /\ txt.args[1] = txt.args[2])
        => txt.value = txt.prev

\* normalizeEol was applied twice, with the target "\r\n", to a text that
\* holds a lone "\r" and a "\n", and the first application changed the text
C15_Witness ==
    /\ txt.calls = <<"normalizeEol", "normalizeEol">>
    /\ txt.args = <<CrLf, CrLf>>
    /\ \E k \in 1..Len(txt.text) :
          txt.text[k] = "\r" /\ (k = Len(txt.text) \/ txt.text[k + 1] # "\n")
    /\ \E k \in 1..Len(txt.text) : txt.text[k] = "\n"
    /\ txt.prev # txt.text
    /\ txt.value = txt.prev

\* the number of newline characters of a text: it spans one line more
NewlineCount(t) == Cardinality({k \in 1..Len(t) : t[k] = "\n"})

\* C17: preprocess returns every input of more than 2 lines character for
\* character unchanged; it rewrites only inputs of at most 2 lines.
C17_PreprocessKeepsMultiLine ==
    txt.calls = <<"preprocessSQL">> =>
        /\ NewlineCount(txt.text) + 1 > 2 => txt.value = txt.text
        /\ txt.value # txt.text => NewlineCount(txt.text) + 1 <= 2

\* preprocess returned a three-line text with leading whitespace unchanged
C17_Witness ==
    /\ txt.calls = <<"preprocessSQL">>
    /\ NewlineCount(txt.text) = 2
    /\ Len(txt.text) = MaxTextLen
    /\ txt.text[1] = " "
    /\ txt.value = txt.text

\* the first token of a line: its characters up to the first whitespace
FirstToken(line) ==
    LET l == TrimStart(line)
        ends == {k \in 1..Len(l) : IsSpace(l[k])}
    IN  IF ends = {} THEN l
        ELSE SubSeq(l, 1, (CHOOSE k \in ends : \A j \in ends : k <= j) - 1)

\* C18: for a single-line statement SELECT <col>, <col> FROM <table> WHERE
\* <cond> with single-space separators, the preprocess output has at least 4
\* lines and each of SELECT, FROM and WHERE is the first token of a line.
C18_ClausesBeginLines ==
    (txt.calls = <<"preprocessSQL">> /\ txt.text \in ShapeStatements) =>
        LET lines == SplitNl(txt.value, <<>>)
        IN  /\ Len(lines) >= 4
            /\ \A w \in {"SELECT", "FROM", "WHERE"} :
                  \E k \in 1..Len(lines) : FirstToken(lines[k]) = Letters(w)

\* preprocess was applied to "SELECT a, b FROM t WHERE x=1" and gave the four
\* lines "SELECT a," / "b" / "FROM t" / "WHERE x=1"
C18_Witness ==
    /\ txt.calls = <<"preprocessSQL">>
    /\ txt.text = ShapeStatement(<<"a">>, <<"b">>, <<"t">>, <<"x", "=", "1">>)
    /\ SplitNl(txt.value, <<>>) =
          << Letters("SELECT") \o <<" ", "a", ",">>, <<"b">>,
             Letters("FROM") \o <<" ", "t">>,
             Letters("WHERE") \o <<" ", "x", "=", "1">> >>

(***************************************************************************)
(* Properties of the format commands.                                      *)
(***************************************************************************)
\* `sqlfluff.format` got "select\n  1" back from the tool for the selection
\* "  SELECT 1" in the line "    SELECT 1", and has built the replacement
SelectionFormatted ==
    /\ cmd.handler = "sqlfluff.format"
    /\ cmd.pc \in {"editing", "done"}
    /\ \E eol \in {Lf, CrLf} : cmd.doc = IndentedSelection(eol)
    /\ cmd.formatted = SelectFormatted

\* "  select\n    1"
SelectFourSpaces ==
    <<" ", " ", "s", "e", "l", "e", "c", "t", "\n", " ", " ", " ", " ", "1">>

\* "  select\n      1"
SelectSixSpaces ==
    <<" ", " ", "s", "e", "l", "e", "c", "t", "\n", " ", " ", " ", " ", " ", " ", "1">>

\* C16 as stated: for the selection "  SELECT 1" (first-line indent of two
\* spaces) in a line indented by four spaces, with the tool returning
\* "select\n  1", the replacement text is "  select\n    1" in the document's
\* end-of-line style.
C16_ReplacementFourSpaces ==
    SelectionFormatted => cmd.replacement = normalizeEol(SelectFourSpaces, cmd.doc.eol)

\* C16: for the selection "  SELECT 1" (first-line indent of two spaces) in a
\* line indented by four spaces, with the tool returning "select\n  1", the
\* replacement text is "  select\n      1" in the document's end-of-line
\* style: the four spaces of the containing line are put in front of the two
\* spaces the tool gave the second line; and the edit that is applied carries
\* that text.
C16_ReplacementKeepsToolIndent ==
    SelectionFormatted =>
        /\ cmd.replacement = normalizeEol(SelectSixSpaces, cmd.doc.eol)
        /\ \A k \in 1..Len(cmd.edits) : cmd.edits[k].text = cmd.replacement

\* the command replaced the selection of a CRLF document by
\* "  select\r\n      1" and ended
C16_Witness ==
    /\ SelectionFormatted
    /\ cmd.pc = "done"
    /\ cmd.doc.eol = CrLf
    /\ Len(cmd.edits) = 1
    /\ cmd.edits[1].text = <<" ", " ", "s", "e", "l", "e", "c", "t", "\r", "\n",
                             " ", " ", " ", " ", " ", " ", "1">>

\* the error messages the user was shown
ErrorMessages(c) == { k \in 1..Len(c.messages) : c.messages[k].level = "error" }

\* C19: when a format command or a provider call has ended after an error was
\* raised in it, the user was shown exactly one error message, the output
\* channel holds an entry for the error, and no exception left the handler.
C19_ErrorsCaughtOnce ==
    (cmd.pc = "done" /\ cmd.raised > 0) =>
        /\ ~cmd.escaped
        /\ Cardinality(ErrorMessages(cmd)) = 1
        /\ \E k \in 1..Len(cmd.channel) : cmd.channel[k] \in {"Error", "Format error"}

\* C20: when `sqlfluff.format` or `sqlfluff-formatter.formatSQL` is triggered
\* without an active editor, the command ends at once with one error message:
\* no file is written, no process is started, no configuration file is looked
\* for and no edit is applied.
C20_NoEditorAbortsBeforeIo ==
    (cmd.handler \in {"sqlfluff.format", "formatSQL"} /\ cmd.pc # "idle" /\ ~cmd.editor) =>
        /\ cmd.pc = "done"
        /\ Len(cmd.messages) = 1
        /\ cmd.messages[1].level = "error"
        /\ fs = << >>
        /\ cmd.tempFilePath = NoFile
        /\ cmd.execs = 0
        /\ \A s \in Strategies : proc["f1"][s] = NoProc /\ tmp["f1"][s] = NoFile
        /\ lint["f1"] = NoLint
        /\ hist["f1"] = <<>>
        /\ ~cmd.probed
        /\ cmd.edits = <<>>

\* the new command was triggered without an active editor and has ended
C20_Witness ==
    /\ cmd.handler = "formatSQL"
    /\ ~cmd.editor
    /\ cmd.pc = "done"
    /\ cmd.messages = <<Message("error", "No active editor found")>>

\* sqlfluff was not found, findPython gave an interpreter, and the question
\* put to the user has been answered
PythonFoundAndAnswered ==
    /\ cmd.handler = "sqlfluff.format"
    /\ cmd.python # Null
    /\ cmd.pc # "consent"

\* C21 as stated: when the configured sqlfluff command is not found and a
\* Python interpreter is available, an installation of sqlfluff through that
\* interpreter is attempted.
C21_InstallAlwaysAttempted ==
    PythonFoundAndAnswered => cmd.installs = 1

\* C21: when the configured sqlfluff command is not found and a Python
\* interpreter is available, the user is asked, and an installation through
\* that interpreter is attempted exactly when the answer is 'Install'; after
\* any other answer the command ends with a warning and nothing is installed,
\* written or run.
C21_InstallAttemptedOnConsent ==
    /\ cmd.installs = (IF cmd.python # Null /\ cmd.consent = "Install" THEN 1 ELSE 0)
    /\ (PythonFoundAndAnswered /\ cmd.consent # "Install") =>
          /\ cmd.pc = "done"
          /\ cmd.messages = <<Message("warning", "sqlfluff installation was cancelled.")>>
          /\ cmd.execs = 0
          /\ fs = << >>

\* sqlfluff was missing, python3 was found, the user chose 'Install', the
\* installation succeeded and the formatting went on to run the tool
C21_Witness ==
    /\ cmd.python = "python3"
    /\ cmd.consent = "Install"
    /\ cmd.installs = 1
    /\ cmd.execs = 1

\* C22: whenever the failed execution in runSqlfluff tells that the tool is
\* missing (stderr holds 'command not found' or 'not recognized', or the error
\* message holds ENOENT), runSqlfluff throws the 'sqlfluff not found' error,
\* whatever the exit code: it neither returns content nor throws another error.
C22_MissingToolIsNotFound ==
    (cmd.ran # NoRun /\ cmd.ran.exitCode # 0 /\ cmd.ran.notFound) =>
        cmd.ran.result = Thrown("sqlfluff not found")

(***************************************************************************)
(* Properties of the temp files.                                           *)
(***************************************************************************)
\* the fix-strategy temp files of invocation i that exist
FixFiles(i) == { n \in DOMAIN fs : n.kind = "fix" /\ fs[n].creator = i }

\* the module strategy of invocation i has written its temp file, and the tool
\* has not touched the file yet
ModuleFileFresh(i) ==
    /\ tmp[i].module \in DOMAIN fs
    /\ proc[i].module.live
    /\ ~proc[i].module.wrote

\* C23: at every point at most one fix-strategy temp file of an invocation
\* exists: the direct strategy's file has been deleted before the module
\* strategy creates its own, and the file of the module strategy is a new
\* one, distinct from the file of the direct strategy: it is created by the
\* module strategy's write, under a path of its own.
C23_OnePrimaryTempFile ==
    \A i \in Invocations :
        /\ Cardinality(FixFiles(i)) <= 1
        /\ ModuleFileFresh(i) => fs[tmp[i].module].writes = 1
        /\ tmp[i].module # NoFile => tmp[i].module # tmp[i].direct

\* C24: when the deletion of a temp file fails, the error is swallowed: no
\* exception leaves the handler, and the command ends as it would have ended
\* had the deletion succeeded, with the edit applied or with the one message
\* of the error that was caught before.
C24_CleanupNeverMasks ==
    cmd.cleanup = "failed" =>
        /\ ~cmd.escaped
        /\ cmd.raised = Cardinality(ErrorMessages(cmd))

\* C25: when every spawned tool process eventually emits 'error' or 'close',
\* every started formatting invocation eventually settles: it resolves with
\* content or is rejected with an error, on every path of the fallback chain.
C25_StartedEventuallySettles ==
    \A i \in Formatting : (hist[i] # <<>>) ~> Settled(i)

\* the direct strategy escalated on its close, and the invocation was settled
\* by the close of the module strategy's process
C25_Witness ==
    /\ Settled("f1")
    /\ \E k \in 1..Len(hist["f1"]) : IsClose("f1", k, "direct")
    /\ \E k \in 1..Len(hist["f1"]) : IsClose("f1", k, "module")

\* the text a handler ends with: the tool's text re-indented and in the
\* document's end-of-line style for `sqlfluff.format`, the result of formatSQL
\* for the new command and the providers
FinalText ==
    IF cmd.handler = "sqlfluff.format"
    THEN normalizeEol(applyIndent(cmd.formatted, getIndentation(cmd.doc.text),
                                  getIndentation(cmd.doc.lineText)),
                      cmd.doc.eol)
    ELSE outcome["f1"].text

\* the handler's formatting failed: runSqlfluff threw, formatSQL was rejected,
\* or an error message was shown
FormatFailed ==
    \/ cmd.ran.result.kind = "thrown"
    \/ cmd.handler \in {"formatSQL", "provider"} /\ outcome["f1"].kind = "rejected"
    \/ ErrorMessages(cmd) # {}

\* C26: a command or provider call applies or returns at most one edit; the
\* edit replaces the range resolved at the start by the final text; and when
\* the formatting fails, no edit is applied or returned.
C26_AtMostOneEdit ==
    /\ Len(cmd.edits) <= 1
    /\ \A k \in 1..Len(cmd.edits) :
          /\ cmd.edits[k].range = [isSelection |-> cmd.doc.isSelection,
                                    chars |-> Len(cmd.doc.text)]
          /\ cmd.edits[k].text = FinalText
    /\ FormatFailed => cmd.edits = <<>>

\* the new command replaced the whole document "a, b" by the text "a\n" that
\* formatSQL resolved with
C26_Witness ==
    /\ cmd.handler = "formatSQL"
    /\ cmd.pc = "done"
    /\ cmd.edits = << [range |-> [isSelection |-> FALSE, chars |-> 4],
                       text |-> <<"a", "\n">>] >>

\* the places in the history of invocation i of the events of the kinds evs
\* that were acted upon for strategy s
ActedUpon(i, s, evs) ==
    { k \in 1..Len(hist[i]) : hist[i][k].ev \in evs /\ hist[i][k].s = s }

\* C27: of the 'error' and 'close' events of a strategy's process at most one
\* is acted upon, in whichever order they arrive; the invocation is settled at
\* most once and the module strategy is started at most once.
C27_OneEventActedUpon ==
    \A i \in Invocations :
        /\ \A s \in Strategies : Cardinality(ActedUpon(i, s, {"error", "close"})) <= 1
        /\ Cardinality({ k \in 1..Len(hist[i]) : hist[i][k].ev \in {"resolve", "reject"} }) <= 1
        /\ Cardinality(ActedUpon(i, "module", {"enter"})) <= 1

\* both events of the direct process and both events of the module process
\* have arrived, the 'close' before the 'error' on the module process
C27_Witness ==
    /\ proc["f1"].direct.errorFired /\ proc["f1"].direct.closeFired
    /\ proc["f1"].module.errorFired /\ proc["f1"].module.closeFired
    /\ ActedUpon("f1", "module", {"close"}) # {}
    /\ ActedUpon("f1", "direct", {"error"}) # {}

\* C28: whenever a format attempt yields content (the invocation resolves,
\* after exit code 0 or after a non-zero exit code that left content), on
\* either strategy, and an output channel is supplied, runLint is called for
\* that run.
C28_LintStartedOnContent ==
    \A i \in Invocations :
        (outcome[i].kind = "resolved" /\ chan[i]) =>
            \E k \in 1..Len(hist[i]) : hist[i][k].ev = "lint"

\* C29: a temp file written by runLint exists only while the lint process
\* runs: it is gone once the process has closed or emitted 'error', and also
\* when starting the process failed synchronously.
C29_LintTempFileDeleted ==
    \A n \in DOMAIN fs :
        n.kind = "lint" =>
            \E i \in Invocations :
                /\ lint[i].live
                /\ lint[i].tmp = n
                /\ ~lint[i].closeFired /\ ~lint[i].errorFired

\* getIndentation was applied to a text
IndentationTaken == txt.calls = <<"getIndentation">>

\* the result r is a prefix of the line, holds only characters of the set
\* blanks, and is not followed in the line by a character of blanks
LongestLeadingRun(r, line, blanks) ==
    /\ Len(r) <= Len(line)
    /\ SubSeq(line, 1, Len(r)) = r
    /\ \A k \in 1..Len(r) : r[k] \in blanks
    /\ Len(r) < Len(line) => line[Len(r) + 1] \notin blanks

\* the first line of a text, as split on \n and \r\n
FirstLineOf(text) ==
    LET ends == {k \in 1..Len(text) : text[k] = "\n"}
        stop == IF ends = {} THEN Len(text) + 1
                ELSE CHOOSE k \in ends : \A j \in ends : k <= j
        line == SubSeq(text, 1, stop - 1)
    IN  IF stop <= Len(text) /\ line # <<>> /\ line[Len(line)] = "\r"
        THEN SubSeq(line, 1, Len(line) - 1) ELSE line

\* C30 as stated: getIndentation returns the longest leading run of space and
\* tab characters of the first line of its input: a prefix of that line, of
\* ' ' and '\t' only, not followed by ' ' or '\t'.
C30_IndentIsSpacesAndTabs ==
    IndentationTaken =>
        LongestLeadingRun(txt.value, FirstLineOf(txt.text), {" ", "\t"})

\* C30: getIndentation returns the longest leading run of whitespace of the
\* first line of its input, where whitespace is what \s matches: space and
\* tab, and also form feed, vertical tab, the Unicode spaces and a carriage
\* return that is not part of a \r\n line break. The result is a prefix of
\* the line, holds whitespace only and is not followed by whitespace; it is
\* the run of spaces and tabs whenever no other whitespace follows that run
\* directly.
C30_IndentIsLeadingWhitespace ==
    IndentationTaken =>
        LET line == FirstLineOf(txt.text)
            run == LET others == {k \in 1..Len(line) : line[k] \notin {" ", "\t"}}
                   IN  IF others = {} THEN Len(line)
                       ELSE (CHOOSE k \in others : \A j \in others : k <= j) - 1
        IN  /\ LongestLeadingRun(txt.value, line, WhiteSpace)
            /\ (run = Len(line) \/ line[run + 1] \notin WhiteSpace) =>
                   /\ Len(txt.value) = run
                   /\ LongestLeadingRun(txt.value, line, {" ", "\t"})

\* getIndentation gave " \t" for the text " \tx\n", and the characters of \s
\* are 25 different ones
C30_Witness ==
    /\ IndentationTaken
    /\ Cardinality(WhiteSpace) = 25
    /\ txt.text = <<" ", "\t", "x", "\n">>
    /\ txt.value = <<" ", "\t">>

(***************************************************************************)
(* Properties of the indentation and line-ending functions.                *)
(***************************************************************************)
\* removeFirstLineIndent was applied to a text
IndentRemoved == txt.calls = <<"removeFirstLineIndent">>

\* the text without the prefix indent of its first line, everything else as
\* it is; the text itself when indent is empty or the first line does not
\* start with it
WithoutFirstIndent(text, indent) ==
    IF indent # <<>> /\ StartsWith(FirstLineOf(text), indent)
    THEN SubSeq(text, Len(indent) + 1, Len(text))
    ELSE text

\* C31 as stated: removeFirstLineIndent removes exactly the prefix indent from the first
\* line when the first line starts with it and leaves all the rest untouched,
\* the other lines and the line terminators; it returns the text unchanged
\* when indent is empty or the first line does not start with indent.
C31_StripTouchesOnlyFirstIndent ==
    IndentRemoved => txt.value = WithoutFirstIndent(txt.text, txt.args[1])

\* a text with every \r\n pair read as \n, pair by pair from the left
RECURSIVE PairsAsLf(_)
PairsAsLf(text) ==
    IF text = <<>> THEN <<>>
    ELSE IF Len(text) >= 2 /\ text[1] = "\r" /\ text[2] = "\n"
         THEN <<"\n">> \o PairsAsLf(SubSeq(text, 3, Len(text)))
         ELSE <<text[1]>> \o PairsAsLf(Tail(text))

\* C31: removeFirstLineIndent returns the text unchanged when indent is
\* empty.  With a non-empty indent it removes exactly the prefix indent from
\* the first line when that line starts with it, keeps every character of
\* every line, and writes each \r\n line break of the text as \n; lone \r
\* and \n stay as they are.
C31_StripKeepsLineContents ==
    IndentRemoved =>
        txt.value = (IF txt.args[1] = <<>> THEN txt.text
                     ELSE PairsAsLf(WithoutFirstIndent(txt.text, txt.args[1])))

\* an indent was removed from the first line of a text that has a \r\n line
\* break and a later line
C31_Witness ==
    /\ IndentRemoved
    /\ txt.args[1] # <<>>
    /\ StartsWith(FirstLineOf(txt.text), txt.args[1])
    /\ \E k \in 1..(Len(txt.text) - 1) : txt.text[k] = "\r" /\ txt.text[k + 1] = "\n"
    /\ Len(txt.value) = Len(txt.text) - Len(txt.args[1]) - 1

\* the lines of a text: the pieces between its line breaks, \n and \r\n
LinesOf(text) ==
    LET t == PairsAsLf(text)
        breaks == {k \in 1..Len(t) : t[k] = "\n"}
        start(i) == IF i = 1 THEN 1
                    ELSE 1 + CHOOSE k \in breaks :
                               Cardinality({j \in breaks : j <= k}) = i - 1
        stop(i) == IF i = Cardinality(breaks) + 1 THEN Len(t)
                   ELSE (CHOOSE k \in breaks :
                             Cardinality({j \in breaks : j <= k}) = i) - 1
    IN  [i \in 1..(Cardinality(breaks) + 1) |-> SubSeq(t, start(i), stop(i))]

\* lines put together with \n between them
RECURSIVE LinesJoined(_)
LinesJoined(lines) ==
    IF Len(lines) = 1 THEN lines[1]
    ELSE lines[1] \o <<"\n">> \o LinesJoined(Tail(lines))

\* applyIndent was applied to a text
IndentApplied == txt.calls = <<"applyIndent">>

\* C32 as stated: applyIndent keeps the number and order of the lines,
\* prepends firstIndent to line 0 and otherIndent to every later line that is
\* not blank, and leaves every later blank line as it was.
C32_RestoreIndentsLineZero ==
    IndentApplied =>
        LET lines == LinesOf(txt.text)
        IN  txt.value =
              LinesJoined([i \in 1..Len(lines) |->
                 IF i = 1 THEN txt.args[1] \o lines[i]
                 ELSE IF Blank(lines[i]) THEN lines[i]
                 ELSE txt.args[2] \o lines[i]])

\* C32: applyIndent keeps the number and order of the lines, prepends
\* firstIndent to line 0 when line 0 is not blank and otherIndent to every
\* later line that is not blank, leaves every blank line, line 0 included,
\* as it was, and puts \n between the lines.
C32_RestoreIndentsNonBlankLines ==
    IndentApplied =>
        LET lines == LinesOf(txt.text)
        IN  /\ txt.value =
                 LinesJoined([i \in 1..Len(lines) |->
                    IF Blank(lines[i]) THEN lines[i]
                    ELSE (IF i = 1 THEN txt.args[1] ELSE txt.args[2]) \o lines[i]])
            /\ NewlineCount(txt.value) = Len(lines) - 1

\* two different indents were applied to a text with a non-blank line 0, a
\* blank line and a non-blank later line
C32_Witness ==
    /\ IndentApplied
    /\ txt.args[1] # <<>> /\ txt.args[2] # <<>> /\ txt.args[1] # txt.args[2]
    /\ LET lines == LinesOf(txt.text)
       IN  /\ Len(lines) = 3
           /\ ~Blank(lines[1]) /\ Blank(lines[2]) /\ ~Blank(lines[3])
    /\ Len(txt.value) = Len(txt.text) + Len(txt.args[1]) + Len(txt.args[2])

\* the line contents of a text when each of \r\n, lone \r and lone \n is
\* read as one line terminator
RECURSIVE LineContents(_, _)
LineContents(t, cur) ==
    IF t = <<>> THEN <<cur>>
    ELSE IF Len(t) >= 2 /\ t[1] = "\r" /\ t[2] = "\n"
         THEN <<cur>> \o LineContents(SubSeq(t, 3, Len(t)), <<>>)
    ELSE IF t[1] \in {"\r", "\n"}
         THEN <<cur>> \o LineContents(Tail(t), <<>>)
    ELSE LineContents(Tail(t), Append(cur, t[1]))

\* \r and \n occur in a text only as the adjacent pair \r\n
OnlyCrLfPairs(t) ==
    \A k \in 1..Len(t) :
        /\ t[k] = "\r" => k < Len(t) /\ t[k + 1] = "\n"
        /\ t[k] = "\n" => k > 1 /\ t[k - 1] = "\r"

\* normalizeEol was applied once to a text
EolNormalized == txt.calls = <<"normalizeEol">>

\* C33: normalizeEol(t, '\n') contains no \r, normalizeEol(t, '\r\n') contains
\* \r and \n only as the adjacent pair \r\n, and in both cases the sequence
\* of line contents is that of t, each of \r\n, lone \r and lone \n of t read
\* as one line terminator.
C33_NormalizeEolTerminators ==
    EolNormalized =>
        /\ txt.args[1] = <<"\n">> =>
              \A k \in 1..Len(txt.value) : txt.value[k] # "\r"
        /\ txt.args[1] = <<"\r", "\n">> => OnlyCrLfPairs(txt.value)
        /\ LineContents(txt.value, <<>>) = LineContents(txt.text, <<>>)

\* a text with a lone \n, a \r\n and a lone \r was normalized to \r\n
C33_Witness ==
    /\ EolNormalized
    /\ txt.args[1] = <<"\r", "\n">>
    /\ txt.text = <<"\n", "\r", "\n", "\r">>
    /\ txt.value = <<"\r", "\n", "\r", "\n", "\r", "\n">>

(***************************************************************************)
(* Properties of preprocessSQL on compact statements.                      *)
(***************************************************************************)
\* preprocessSQL was applied to a text of at most 2 lines
Preprocessed ==
    /\ txt.calls = <<"preprocessSQL">>
    /\ NewlineCount(txt.text) + 1 <= 2

\* a top-level clause keyword stands at position p of t as a word of its own:
\* whitespace before it, whitespace after it
ClauseKeywordAt(t, p) ==
    /\ p > 1
    /\ IsSpace(t[p - 1])
    /\ \E a \in 1..Len(ClauseKeywords) :
          LET e == MatchKw(t, p, Spell(ClauseKeywords)[a])
          IN  e # 0 /\ e <= Len(t) /\ IsSpace(t[e])

\* position p begins a line of t
BeginsLine(t, p) == p = 1 \/ t[p - 1] = "\n"

\* C34: for every input of at most 2 lines, every occurrence of a top-level
\* clause keyword that is preceded by whitespace begins a line of the
\* preprocess output, also when two such keywords follow one another
\* separated by a single whitespace ("UNION SELECT").
C34_EveryClauseKeywordBeginsLine ==
    Preprocessed =>
        \A p \in 1..Len(txt.value) :
            ClauseKeywordAt(txt.value, p) => BeginsLine(txt.value, p)

\* the number of commas of a text, and the position of its k-th comma
CommaCount(t) == Cardinality({p \in 1..Len(t) : t[p] = ","})

CommaAt(t, k) ==
    CHOOSE p \in 1..Len(t) :
        t[p] = "," /\ Cardinality({q \in 1..p : t[q] = ","}) = k

\* the character at position p of t is the last one of its line
EndsLine(t, p) == p = Len(t) \/ t[p + 1] = "\n"

\* C35 as stated: for every input of at most 2 lines, each comma of the
\* preprocess output is the last character of its line, whether or not the
\* comma was followed by whitespace in the input.
C35_EveryCommaEndsLine ==
    Preprocessed =>
        \A q \in 1..Len(txt.value) : txt.value[q] = "," => EndsLine(txt.value, q)

\* C35: for every input of at most 2 lines, preprocess keeps the commas; a
\* comma that is followed by whitespace in the input, or ends it, is the last
\* character of its line in the output, and a comma that is followed by
\* another character is still followed by that character.
C35_CommaBeforeWhitespaceEndsLine ==
    Preprocessed =>
        /\ CommaCount(txt.value) = CommaCount(txt.text)
        /\ \A k \in 1..CommaCount(txt.text) :
              LET p == CommaAt(txt.text, k)
                  q == CommaAt(txt.value, k)
              IN  IF p = Len(txt.text) \/ IsSpace(txt.text[p + 1])
                  THEN EndsLine(txt.value, q)
                  ELSE q < Len(txt.value) /\ txt.value[q + 1] = txt.text[p + 1]

\* preprocess was applied to a one-line text with a comma followed by a space
\* and a comma followed by a letter: the first ends a line of the output, the
\* second does not
C35_Witness ==
    /\ Preprocessed
    /\ NewlineCount(txt.text) = 0
    /\ \E k \in 1..CommaCount(txt.text), j \in 1..CommaCount(txt.text) :
          /\ txt.text[CommaAt(txt.text, k) + 1] = " "
          /\ txt.value[CommaAt(txt.value, k) + 1] = "\n"
          /\ txt.text[CommaAt(txt.text, j) + 1] = "b"
          /\ txt.value[CommaAt(txt.value, j) + 1] = "b"

(***************************************************************************)
(* Properties of the install flow of `sqlfluff.format`.                    *)
(***************************************************************************)
\* a line was written to the output channel, a message was shown
InChannel(line) == \E k \in 1..Len(cmd.channel) : cmd.channel[k] = line
Shown(level, text) ==
    \E k \in 1..Len(cmd.messages) : cmd.messages[k] = Message(level, text)

\* the formatting stage of `sqlfluff.format` was entered: its banner was
\* written, or a temp file, a tool run or an edit of it exists
FormattingEntered ==
    \/ InChannel("Formatting")
    \/ cmd.tempFilePath # NoFile
    \/ cmd.execs > 0
    \/ cmd.ran # NoRun
    \/ cmd.edits # <<>>
    \/ fs # << >>

\* commandExists(sqlfluffPath) has settled and the command was found
SqlfluffFound == cmd.found = <<TRUE>>

\* the user chose 'Install', the pip run succeeded and commandExists('sqlfluff')
\* found the command after it
InstalledAndFound ==
    /\ cmd.python # Null
    /\ cmd.consent = "Install"
    /\ cmd.installs = 1
    /\ cmd.pip = "ok"
    /\ cmd.found = <<FALSE, TRUE>>

\* the consent was not given, the installation failed, or no Python
\* interpreter was found
InstallFlowRefused ==
    \/ PythonFoundAndAnswered /\ cmd.consent # "Install"
    \/ Shown("error", "Failed to install sqlfluff.")
    \/ Shown("error", "Neither sqlfluff nor python interpreter could be found.")

\* C36: in the install flow the formatting stage (temp file, tool run, edit)
\* is entered only if the configured sqlfluff command was found, or the user
\* chose 'Install' and the installation succeeded with the command then found;
\* after a cancelled consent, a failed installation or no Python interpreter
\* found, the invocation has ended with no temp file created, no tool run and
\* no edit applied.
C36_FormattingOnlyWithSqlfluff ==
    cmd.handler = "sqlfluff.format" =>
        /\ FormattingEntered => (SqlfluffFound \/ InstalledAndFound)
        /\ InstallFlowRefused =>
              /\ cmd.pc = "done"
              /\ ~FormattingEntered
              /\ ~SqlfluffFound /\ ~InstalledAndFound

\* sqlfluff was missing, python3 was found, the user chose 'Install', the pip
\* run succeeded but the command was still not found: the invocation ended
\* with 'Failed to install sqlfluff.' and nothing of the formatting stage
C36_Witness ==
    /\ cmd.handler = "sqlfluff.format"
    /\ InChannel("sqlfluff not found at")
    /\ cmd.python = "python3"
    /\ cmd.consent = "Install"
    /\ cmd.installs = 1
    /\ cmd.pip = "ok"
    /\ ~InChannel("sqlfluff installation error")
    /\ cmd.found = <<FALSE, FALSE>>
    /\ cmd.messages = <<Message("error", "Failed to install sqlfluff.")>>
    /\ cmd.pc = "done"
    /\ cmd.execs = 0
    /\ cmd.edits = <<>>
    /\ fs = << >>

====
